---- MODULE Spec2Model ----
(***************************************************************************)
(* usd-rerun-logger: the change-tracked emitter (UsdRerunLogger) that      *)
(* walks a USD stage and logs transforms, geometry and clear instructions  *)
(* to Rerun, and the recording-stream helper get_recording_stream.         *)
(*                                                                         *)
(* Spec      the UsdRerunLogger of src/usd_rerun_logger/__init__.py over a *)
(*           small stage that the caller edits between calls.  The older   *)
(*           class of src/isaac_rerun_logger/__init__.py is the same       *)
(*           machine with use_physx_transforms off, no path filter and no  *)
(*           Isaac Lab scene; its _log_mesh and _log_cube are the geometry *)
(*           steps both classes call.                                      *)
(* SpecUtil  get_recording_stream of src/usd_rerun_logger/util.py.         *)
(***************************************************************************)
EXTENDS Integers, Sequences, FiniteSets, TLC

VARIABLES
    \* ---- the world the logger reads (external collaborators) ----
    stagePrims,                 \* paths of the prims now on the USD stage
    xf,                         \* path -> local transformation (GetLocalTransformation)
    pose,                       \* rigid-body path -> physics pose (PhysX / body_pose_w)
    material,                   \* mesh or subset path -> the material bound to it
    \* ---- UsdRerunLogger fields ----
    stage,                      \* self._stage: "None" or the stage
    logger_id,                  \* self._logger_id: "None" or an id
    path_filter,                \* self._path_filter
    logged_meshes,              \* self._logged_meshes
    last_usd_transforms,        \* self._last_usd_transforms
    use_physx_transforms,       \* self.use_physx_transforms
    last_physx_transforms,      \* self._last_physx_transforms
    isaac_lab_scene,            \* self._isaac_lab_scene: "None" or the scene
    last_isaac_lab_transforms,  \* self._last_isaac_lab_transforms
    \* ---- what the last operation did (observed by the caller / the sink) ----
    op,                         \* name of the last operation
    ret,                        \* how it came back
    out,                        \* the entity-log entries it sent, in order
    \* ---- history ----
    seen,                       \* mesh/cube paths visible in a log_stage since the
                                \* logged set was last emptied
    geomLog,                    \* path -> geometry entries emitted for it since then
    lastVisible,                \* the visible set of the session's latest log_stage
    lastOp,                     \* the latest call on the logger (edits aside)
    \* ---- get_recording_stream (SpecUtil) ----
    globalStream,               \* rerun's global data recording
    created,                    \* number of RecordingStream objects created
    saved,                      \* files a stream was told to save to
    dirs,                       \* directories made
    call,                       \* the last call: its arguments and its outcome
    \* ---- the triangulation of _log_mesh (SpecMesh) ----
    meshIn,                     \* the mesh data _log_mesh reads from the prim
    meshOut,                    \* what it computed and logged
    \* ---- LogRerun fields (SpecWrapper) ----
    wrapperArgs,                \* the triggers and the length __init__ was given
    episode_trigger,            \* self.episode_trigger: "None" or a trigger
    step_trigger,               \* self.step_trigger: "None" or a trigger
    recording_length,           \* self.recording_length: [inf, n]
    step_id,                    \* self.step_id
    episode_id,                 \* self.episode_id
    timeline_name,              \* self._timeline_name: "None" or a name
    recorded_frames,            \* self._recorded_frames
    closed,                     \* close() was called
    calls,                      \* calls the last operation made on the
                                \* recording stream and the scene logger
    \* ---- history of the wrapper's recordings ----
    recNow,                     \* the active recording: name, frames, episode
    finished,                   \* the recordings that ended, with their frames
    started,                    \* names of the recordings started, in order
    firings,                    \* how many times a trigger answered True
    stepFired,                  \* a step trigger fired in the current episode
    \* ---- IsaacLabRerunLogger fields and its scene (SpecIsaacLab) ----
    scene,                      \* self._scene: "None" or the scene
    scene_stage,                \* self._scene.stage: "None" or the stage
    num_envs,                   \* self._scene.num_envs
    articulations,              \* self._scene.articulations.values()
    body_pose_w,                \* articulation -> obj.data.body_pose_w
    logged_envs,                \* self._logged_envs
    scene_structure_logged,     \* self._scene_structure_logged
    last_transforms,            \* self._last_transforms
    structure_found,            \* history: an earlier log_scene found a scene
                                \* and a stage
    \* ---- download_image and what it reads (SpecDownload) ----
    cache_dir,                  \* the cache directory: absent, present, blocked
    files,                      \* the files in the cache directory
    server,                     \* url -> what a request for it meets
    disk,                       \* whether a write to the cache directory succeeds
    lastDownload                \* the last call: its url, and whether it
                                \* opened the url

world  == <<stagePrims, xf, pose, material>>
memos  == <<last_usd_transforms, last_physx_transforms, last_isaac_lab_transforms>>
config == <<stage, logger_id, path_filter, use_physx_transforms, isaac_lab_scene>>
logger == <<config, logged_meshes, memos>>
obs    == <<op, ret, out>>
hist   == <<seen, geomLog, lastVisible>>
util   == <<globalStream, created, saved, dirs, call>>
flat   == <<meshIn, meshOut>>
wrap   == <<wrapperArgs, episode_trigger, step_trigger, recording_length, step_id,
            episode_id, timeline_name, recorded_frames, closed, calls,
            recNow, finished, started, firings, stepFired>>
lab    == <<scene, scene_stage, num_envs, articulations, body_pose_w,
            logged_envs, scene_structure_logged, last_transforms,
            structure_found>>
dl     == <<cache_dir, files, server, disk, lastDownload>>
aux    == <<lab, dl>>
vars   == <<world, logger, obs, hist, lastOp, util, flat, wrap, aux>>

(***************************************************************************)
(* Bounds                                                                  *)
(***************************************************************************)
\* transform and pose values are 0..MaxXf
MaxXf == 1
\* RecordingStream objects one run of SpecUtil may create
MaxStreams == 2

XfValues == 0..MaxXf

(***************************************************************************)
(* The stage: a fixed universe of prims, listed in traversal order.        *)
(***************************************************************************)
Looks  == "/World/Looks"
Mesh   == "/World/Mesh"
Bare   == "/World/Bare"
Parts  == "/World/Parts"
Cube   == "/World/Cube"
Guide  == "/World/Guide"
Base   == "/World/envs/env_0/Robot/base"

\* stage.Traverse(predicate): a stable depth-first order
TraversalOrder == <<Looks, Mesh, Bare, Parts, Cube, Guide, Base>>

Paths == {TraversalOrder[i] : i \in 1..Len(TraversalOrder)}

\* What the scene-graph accessors answer for each prim.
\*   type       the prim's schema type
\*   purpose    the "purpose" attribute
\*   rigid      HasAPI(UsdPhysics.RigidBodyAPI)
\*   inPhysx    get_rigidbody_transformation(path)["ret_val"]
\*   points     GetPointsAttr() is a valid attribute
\*   faceData   both face-vertex attributes are valid
\*   counts     face_vertex_counts
\*   subsets    GetAllGeomSubsets: <<[path, elementType, indices]>>
NoMesh == [points |-> FALSE, faceData |-> FALSE, counts |-> <<>>, subsets |-> <<>>]

PrimInfo(p) ==
    CASE p = Looks -> [type |-> "Scope", purpose |-> "default", rigid |-> FALSE,
                       inPhysx |-> FALSE, mesh |-> NoMesh]
      [] p = Mesh  -> [type |-> "Mesh", purpose |-> "default", rigid |-> FALSE,
                       inPhysx |-> FALSE,
                       mesh |-> [points |-> TRUE, faceData |-> TRUE,
                                 counts |-> <<4, 3>>, subsets |-> <<>>]]
      [] p = Bare  -> [type |-> "Mesh", purpose |-> "default", rigid |-> FALSE,
                       inPhysx |-> FALSE, mesh |-> NoMesh]
      [] p = Parts -> [type |-> "Mesh", purpose |-> "default", rigid |-> FALSE,
                       inPhysx |-> FALSE,
                       mesh |-> [points |-> TRUE, faceData |-> TRUE,
                                 counts |-> <<3, 4>>,
                                 subsets |-> <<
                                   [path |-> "/World/Parts/front",
                                    elementType |-> "face", indices |-> <<1>>],
                                   [path |-> "/World/Parts/edges",
                                    elementType |-> "edge", indices |-> <<0>>],
                                   [path |-> "/World/Parts/none",
                                    elementType |-> "face", indices |-> <<>>]>>]]
      [] p = Cube  -> [type |-> "Cube", purpose |-> "default", rigid |-> TRUE,
                       inPhysx |-> FALSE, mesh |-> NoMesh]
      [] p = Guide -> [type |-> "Cube", purpose |-> "guide", rigid |-> FALSE,
                       inPhysx |-> FALSE, mesh |-> NoMesh]
      [] p = Base  -> [type |-> "Xform", purpose |-> "default", rigid |-> TRUE,
                       inPhysx |-> TRUE, mesh |-> NoMesh]

\* prim.IsA(UsdGeom.Xformable): Mesh and Cube are Gprims, hence Xformable
IsXformable(p) == PrimInfo(p).type \in {"Xform", "Mesh", "Cube"}
IsMesh(p)      == PrimInfo(p).type = "Mesh"
IsCube(p)      == PrimInfo(p).type = "Cube"

\* the prims the caller adds to and removes from the stage, and those it moves
Removable == {Looks, Mesh, Base}
Movable   == {Mesh}
Bodies    == {Base}

(***************************************************************************)
(* Python dict helpers                                                     *)
(***************************************************************************)
DictSet(d, k, v) == [q \in DOMAIN d \cup {k} |-> IF q = k THEN v ELSE d[q]]
DictDel(d, k)    == [q \in DOMAIN d \ {k} |-> d[q]]
EmptyDict        == <<>>

(***************************************************************************)
(* Path filter: fnmatch.fnmatch of a path against the patterns in use.     *)
(* "*" matches any run of characters, "/" included.                        *)
(***************************************************************************)
PatEnv0  == "/World/envs/env_0/*"
PatMesh  == "/World/Mesh"
PatEndsS == "/World/*s"

fnmatch(path, pattern) ==
    CASE pattern = PatEnv0  -> path \in {Base}
      [] pattern = PatMesh  -> path \in {Mesh}
      [] pattern = PatEndsS -> path \in {Looks, Parts}
      [] OTHER -> FALSE

\* the path_filter arguments initialize is called with
FilterArgs ==
    { [kind |-> "none", patterns |-> <<>>],
      [kind |-> "str",  patterns |-> <<PatEnv0>>],
      [kind |-> "list", patterns |-> <<PatMesh, PatEndsS>>] }

\* initialize: a single string becomes a one-element list
StoredFilter(arg) ==
    IF arg.kind = "str" THEN [kind |-> "list", patterns |-> arg.patterns]
    ELSE arg

NoFilter == [kind |-> "none", patterns |-> <<>>]

\* log_stage: "if self._path_filter:" then "if not any(fnmatch...): continue"
PassesFilter(path, f) ==
    IF f.kind = "list" /\ Len(f.patterns) > 0
    THEN \E i \in 1..Len(f.patterns) : fnmatch(path, f.patterns[i])
    ELSE TRUE

(***************************************************************************)
(* The Isaac Lab scene handed to initialize                                *)
(***************************************************************************)
Scene ==
    [num_envs |-> 1,
     articulations |-> << [prim_path |-> "/World/envs/env_.*/Robot",
                           body_names |-> <<"base">>] >>]

\* obj.cfg.prim_path.replace(".*", str(env_id))
RootPath(obj, env_id) ==
    CASE obj.prim_path = "/World/envs/env_.*/Robot" /\ env_id = 0
           -> "/World/envs/env_0/Robot"
      [] OTHER -> obj.prim_path

\* f"{root_path}/{body_name}"
BodyPath(root_path, body_name) == root_path \o "/" \o body_name

\* every (articulation, env, body) in loop order, as body paths
SceneBodyPaths ==
    LET ofObj(obj) ==
          LET root == RootPath(obj, 0)
          IN  [i \in 1..Len(obj.body_names) |-> BodyPath(root, obj.body_names[i])]
    IN  ofObj(Scene.articulations[1])

(***************************************************************************)
(* Entity-log entries: rr.log(path, payload)                               *)
(*   kind  the archetype logged                                            *)
(*   path  the entity path                                                 *)
(*   of    the prim (or body) whose processing logged it                   *)
(*   val   the transform or pose logged (0 for the other kinds)            *)
(***************************************************************************)
Entry(kind, path, of, val) == [kind |-> kind, path |-> path, of |-> of, val |-> val]

GeometryKinds == {"Mesh3D", "Points3D", "Boxes3D"}

\* the entries of a sequence that satisfy a test, in order
RECURSIVE SelectEntries(_, _, _)
SelectEntries(es, kinds, prim) ==
    IF es = <<>> THEN <<>>
    ELSE LET rest == SelectEntries(Tail(es), kinds, prim)
         IN  IF Head(es).kind \in kinds /\ Head(es).of = prim
             THEN <<Head(es)>> \o rest ELSE rest

\* how many entries of a kind a sequence holds for an entity path
CountAt(es, kind, path) ==
    Cardinality({i \in 1..Len(es) : es[i].kind = kind /\ es[i].path = path})

(***************************************************************************)
(* Transform-diff steps.  Each compares the value read now with the        *)
(* memoized one, returns on equality, and otherwise memoizes and logs.     *)
(* A step result is [memo, entries].                                       *)
(***************************************************************************)
\* a step that logs on a difference but never memoizes what it logged
log_usd_transform_forgetful(memo, entity_path, transform_matrix) ==
    IF entity_path \in DOMAIN memo /\ memo[entity_path] = transform_matrix
    THEN [memo |-> memo, entries |-> <<>>]
    ELSE [memo |-> memo,
          entries |-> <<Entry("Transform3D", entity_path, entity_path,
                              transform_matrix)>>]

\* _log_usd_transform, after the Xformable check, with the matrix read
log_usd_transform(memo, entity_path, transform_matrix) ==
    IF entity_path \in DOMAIN memo /\ memo[entity_path] = transform_matrix
    THEN [memo |-> memo, entries |-> <<>>]
    ELSE [memo |-> DictSet(memo, entity_path, transform_matrix),
          entries |-> <<Entry("Transform3D", entity_path, entity_path,
                              transform_matrix)>>]

\* get_physx_interface().get_rigidbody_transformation(entity_path)
get_rigidbody_transformation(entity_path) ==
    IF PrimInfo(entity_path).inPhysx
    THEN [ret_val |-> TRUE,  value |-> pose[entity_path]]
    ELSE [ret_val |-> FALSE, value |-> 0]

\* _log_physx_pose
log_physx_pose(memo, entity_path) ==
    IF ~PrimInfo(entity_path).rigid
    THEN [memo |-> memo, entries |-> <<>>]
    ELSE LET transform == get_rigidbody_transformation(entity_path)
         IN  IF ~transform.ret_val
             THEN [memo |-> memo, entries |-> <<>>]
             ELSE IF entity_path \in DOMAIN memo
                     /\ memo[entity_path] = transform.value
             THEN [memo |-> memo, entries |-> <<>>]
             ELSE [memo |-> DictSet(memo, entity_path, transform.value),
                   entries |-> <<Entry("Transform3D", entity_path, entity_path,
                                       transform.value)>>]

\* the body of the innermost loop of _log_isaac_lab_asset_poses
log_body_pose(memo, body_path, body_pose) ==
    IF body_path \in DOMAIN memo /\ memo[body_path] = body_pose
    THEN [memo |-> memo, entries |-> <<>>]
    ELSE [memo |-> DictSet(memo, body_path, body_pose),
          entries |-> <<Entry("Transform3D", body_path, body_path, body_pose)>>]

\* _log_isaac_lab_asset_poses: every body of every articulation and env
RECURSIVE log_isaac_lab_asset_poses_from(_, _)
log_isaac_lab_asset_poses_from(i, acc) ==
    IF i > Len(SceneBodyPaths) THEN acc
    ELSE LET body_path == SceneBodyPaths[i]
             r == log_body_pose(acc.memo, body_path, pose[body_path])
         IN  log_isaac_lab_asset_poses_from(
                 i + 1, [memo |-> r.memo, entries |-> acc.entries \o r.entries])

log_isaac_lab_asset_poses(memo) ==
    IF isaac_lab_scene = "None"
    THEN [memo |-> memo, entries |-> <<>>]
    ELSE log_isaac_lab_asset_poses_from(1, [memo |-> memo, entries |-> <<>>])

(***************************************************************************)
(* Geometry steps, at the level of the entities they log                   *)
(***************************************************************************)
\* triangles one face contributes: 1 for a triangle, 2 for a quad, and one
\* per i in range(1, count - 1) otherwise
TrianglesOfFace(count) ==
    IF count = 3 THEN 1
    ELSE IF count = 4 THEN 2
    ELSE IF count > 2 THEN count - 2 ELSE 0

\* len(subset_triangle_indices) for a subset's face indices
RECURSIVE SubsetTriangleCount(_, _)
SubsetTriangleCount(counts, included_faces) ==
    IF included_faces = <<>> THEN 0
    ELSE LET face_idx == Head(included_faces)
             here == IF face_idx < Len(counts)
                     THEN TrianglesOfFace(counts[face_idx + 1]) ELSE 0
         IN  here + SubsetTriangleCount(counts, Tail(included_faces))

\* The materials a mesh or a subset can be bound to:
\*   none                 ComputeBoundMaterial finds no material
\*   omnipbr              an OmniPBR shader whose diffuse_texture is a file
\*                        that exists
\*   omnipbr_missing_file the same, the file does not exist
\*   preview_unconnected  a UsdPreviewSurface whose diffuseColor input has
\*                        no connected source (a constant colour)
MaterialKinds == {"none", "omnipbr", "omnipbr_missing_file", "preview_unconnected"}

\* the paths a material is looked up for
MaterialPrims == {Mesh, "/World/Parts/front"}

NoMaterials == [p \in MaterialPrims |-> "none"]

\* _get_image_texture_path: [raised, path].  On a UsdPreviewSurface it
\* evaluates diffuse_color.GetConnectedSource()[0]; GetConnectedSource()
\* of an unconnected input is None, and nothing catches the TypeError.
get_image_texture_path(prim) ==
    LET kind == IF prim \in DOMAIN material THEN material[prim] ELSE "none"
    IN  CASE kind = "preview_unconnected" -> [raised |-> TRUE, path |-> "None"]
          [] kind = "omnipbr" -> [raised |-> FALSE, path |-> "textures/albedo.png"]
          [] kind = "omnipbr_missing_file" -> [raised |-> FALSE, path |-> "textures/gone.png"]
          [] OTHER -> [raised |-> FALSE, path |-> "None"]

\* _load_texture: 1 for the image data, 0 for None; its own failures are
\* caught inside it
load_texture(texture_path) ==
    IF texture_path = "None" THEN 0
    ELSE IF texture_path = "textures/albedo.png" THEN 1
    ELSE 0

\* _log_mesh_data for a subset or the mesh once its texture path is
\* resolved, followed by what the rest of _log_mesh logs: [entries, raised]
log_textured(path, prim, texture_path, rest) ==
    IF texture_path.raised THEN [entries |-> <<>>, raised |-> TRUE]
    ELSE [entries |-> <<Entry("Mesh3D", path, prim,
                              load_texture(texture_path.path))>> \o rest.entries,
          raised |-> rest.raised]

\* one iteration of the subset loop, rest being the later iterations
log_subset(prim, subset, counts, rest) ==
    IF subset.elementType # "face" THEN rest
    ELSE IF subset.indices = <<>> THEN rest
    ELSE IF SubsetTriangleCount(counts, subset.indices) = 0 THEN rest
    ELSE log_textured(subset.path, prim, get_image_texture_path(subset.path), rest)

\* the subset loop of _log_mesh: [entries, raised]; val is 1 for a textured
\* Mesh3D
RECURSIVE log_subsets(_, _, _)
log_subsets(prim, m, i) ==
    IF i > Len(m.subsets) THEN [entries |-> <<>>, raised |-> FALSE]
    ELSE log_subset(prim, m.subsets[i], m.counts, log_subsets(prim, m, i + 1))

\* _log_mesh: [entries, raised]
log_mesh_run(prim) ==
    LET m == PrimInfo(prim).mesh
    IN  IF ~m.points THEN [entries |-> <<>>, raised |-> FALSE]
        ELSE IF ~m.faceData
             THEN [entries |-> <<Entry("Points3D", prim, prim, 0)>>,
                   raised |-> FALSE]
        ELSE IF Len(m.subsets) > 0 THEN log_subsets(prim, m, 1)
        ELSE log_textured(prim, prim, get_image_texture_path(prim),
                          [entries |-> <<>>, raised |-> FALSE])

\* the entities _log_mesh logs for a mesh
log_mesh(prim) == log_mesh_run(prim).entries

\* _log_cube
log_cube(prim) == <<Entry("Boxes3D", prim, prim, 0)>>

(***************************************************************************)
(* log_stage                                                               *)
(***************************************************************************)
\* bool(self.use_physx_transforms): the attribute holds whatever the
\* constructor's first positional argument was
Truthy(v) == v # "False"

\* a guard that lets every visible mesh and cube through
not_logged_ignored(entity_path, logged) == TRUE

\* "entity_path not in self._logged_meshes"
not_logged(entity_path, logged) == entity_path \notin logged

\* _log_transform on the traversal state s
log_transform(prim, s) ==
    IF Truthy(use_physx_transforms) /\ PrimInfo(prim).rigid
    THEN LET r == log_physx_pose(s.physx, prim)
         IN  [s EXCEPT !.physx = r.memo, !.out = @ \o r.entries]
    ELSE IF ~IsXformable(prim) THEN s
    ELSE LET r == log_usd_transform(s.usd, prim, xf[prim])
         IN  [s EXCEPT !.usd = r.memo, !.out = @ \o r.entries]

\* a bookkeeping that marks the mesh logged before _log_mesh is called
mesh_logged_before_call(prim, s, r) ==
    [s EXCEPT !.out = @ \o r.entries, !.logged = @ \cup {prim},
              !.raised = r.raised]

\* a bookkeeping that marks a mesh logged only when _log_mesh emitted
\* something for it
mesh_logged_when_emitted(prim, s, r) ==
    IF r.raised
    THEN [s EXCEPT !.out = @ \o r.entries, !.raised = TRUE]
    ELSE IF r.entries = <<>> THEN s
    ELSE [s EXCEPT !.out = @ \o r.entries, !.logged = @ \cup {prim}]

\* "self._log_mesh(prim, entity_path); self._logged_meshes.add(entity_path)"
\* with r what _log_mesh did
mesh_logged(prim, s, r) ==
    IF r.raised
    THEN [s EXCEPT !.out = @ \o r.entries, !.raised = TRUE]
    ELSE [s EXCEPT !.out = @ \o r.entries, !.logged = @ \cup {prim}]

\* "if prim.IsA(UsdGeom.Mesh)" and its body
visit_mesh(prim, s) ==
    IF IsMesh(prim) /\ not_logged(prim, s.logged)
    THEN mesh_logged(prim, s, log_mesh_run(prim))
    ELSE s

\* "if prim.IsA(UsdGeom.Cube)" and its body
visit_cube(prim, s) ==
    IF ~s.raised /\ IsCube(prim) /\ not_logged(prim, s.logged)
    THEN [s EXCEPT !.out = @ \o log_cube(prim), !.logged = @ \cup {prim}]
    ELSE s

\* "current_paths.add(entity_path)" and the transform step
visit_transform(prim, s) ==
    IF prim \notin DOMAIN s.isaac
    THEN log_transform(prim, [s EXCEPT !.current_paths = @ \cup {prim}])
    ELSE [s EXCEPT !.current_paths = @ \cup {prim}]

\* one iteration of "for prim in self._stage.Traverse(predicate)"
visit(prim, s) ==
    IF PrimInfo(prim).purpose = "guide" THEN s
    ELSE IF ~PassesFilter(prim, path_filter) THEN s
    ELSE visit_cube(prim, visit_mesh(prim, visit_transform(prim, s)))

\* the traversal loop over the prims on the stage; an exception raised
\* while a prim is processed ends it
RECURSIVE traverse(_, _)
traverse(i, s) ==
    IF i > Len(TraversalOrder) \/ s.raised THEN s
    ELSE traverse(i + 1, IF TraversalOrder[i] \in stagePrims
                         THEN visit(TraversalOrder[i], s) ELSE s)

\* a closing loop that also drops the absent path from the logged set
clear_path_forgetting(path, s) ==
    [s EXCEPT !.out = Append(@, Entry("Clear", path, path, 0)),
              !.usd = DictDel(@, path),
              !.logged = @ \ {path}]

\* a closing loop that logs the clear and keeps the memo entry
clear_path_keeping_memo(path, s) ==
    [s EXCEPT !.out = Append(@, Entry("Clear", path, path, 0))]

\* the body of the closing loop for one memoized path that is absent
clear_path(path, s) ==
    [s EXCEPT !.out = Append(@, Entry("Clear", path, path, 0)),
              !.usd = DictDel(@, path)]

\* "for path in list(self._last_usd_transforms.keys())"; the keys are
\* taken in traversal order
RECURSIVE clear_absent(_, _, _)
clear_absent(i, keys, s) ==
    IF i > Len(TraversalOrder) THEN s
    ELSE LET path == TraversalOrder[i]
         IN  clear_absent(i + 1, keys,
                 IF path \in keys /\ path \notin s.current_paths
                 THEN clear_path(path, s) ELSE s)

\* the whole of log_stage on an initialized logger
log_stage_run ==
    LET poses == log_isaac_lab_asset_poses(last_isaac_lab_transforms)
        s0 == [current_paths |-> {},
               logged |-> logged_meshes,
               usd    |-> last_usd_transforms,
               physx  |-> last_physx_transforms,
               isaac  |-> poses.memo,
               out    |-> poses.entries,
               raised |-> FALSE]
        s1 == traverse(1, s0)
    IN  IF s1.raised THEN s1 ELSE clear_absent(1, DOMAIN s1.usd, s1)

log_stage ==
    /\ op' = "log_stage" /\ lastOp' = "log_stage"
    /\ IF stage = "None"
       THEN \* print("Warning: USD stage is not initialized."); return
            /\ ret' = "warning"
            /\ out' = <<>>
            /\ UNCHANGED <<logged_meshes, memos, hist>>
       ELSE LET s == log_stage_run
            IN  /\ ret' = (IF s.raised THEN "raised" ELSE "ok")
                /\ out' = s.out
                /\ logged_meshes' = s.logged
                /\ last_usd_transforms' = s.usd
                /\ last_physx_transforms' = s.physx
                /\ last_isaac_lab_transforms' = s.isaac
                /\ seen' = seen \cup {p \in s.current_paths : IsMesh(p) \/ IsCube(p)}
                /\ geomLog' = [p \in Paths |->
                                 geomLog[p] \o SelectEntries(s.out, GeometryKinds, p)]
                /\ lastVisible' = s.current_paths
    /\ UNCHANGED <<world, config, util, flat, wrap, aux>>

(***************************************************************************)
(* initialize, stop, clear_logged_meshes                                   *)
(***************************************************************************)
\* a stop() that resets the session but keeps the logged set
after_stop_keeping_meshes ==
    IF logger_id # "None"
    THEN [logger_id |-> "None", stage |-> "None", path_filter |-> NoFilter,
          logged |-> logged_meshes, usd |-> EmptyDict, physx |-> EmptyDict,
          isaac |-> EmptyDict]
    ELSE [logger_id |-> logger_id, stage |-> stage, path_filter |-> path_filter,
          logged |-> logged_meshes, usd |-> last_usd_transforms,
          physx |-> last_physx_transforms, isaac |-> last_isaac_lab_transforms]

\* the fields stop() leaves behind
after_stop ==
    IF logger_id # "None"
    THEN [logger_id |-> "None", stage |-> "None", path_filter |-> NoFilter,
          logged |-> {}, usd |-> EmptyDict, physx |-> EmptyDict,
          isaac |-> EmptyDict]
    ELSE [logger_id |-> logger_id, stage |-> stage, path_filter |-> path_filter,
          logged |-> logged_meshes, usd |-> last_usd_transforms,
          physx |-> last_physx_transforms, isaac |-> last_isaac_lab_transforms]

NoHistory == [p \in Paths |-> <<>>]

stop ==
    /\ op' = "stop" /\ lastOp' = "stop" /\ ret' = "ok" /\ out' = <<>>
    /\ logger_id' = after_stop.logger_id
    /\ stage' = after_stop.stage
    /\ path_filter' = after_stop.path_filter
    /\ logged_meshes' = after_stop.logged
    /\ last_usd_transforms' = after_stop.usd
    /\ last_physx_transforms' = after_stop.physx
    /\ last_isaac_lab_transforms' = after_stop.isaac
    /\ seen' = {} /\ geomLog' = NoHistory /\ lastVisible' = {}
    /\ UNCHANGED <<world, use_physx_transforms, isaac_lab_scene, util, flat, wrap, aux>>

\* f"{logger_id}_{np.random.randint(10000)}"
NewLoggerId == "isaac_rerun_logger_0"

initialize(path_filter_arg, scene_arg) ==
    /\ op' = "initialize" /\ lastOp' = "initialize" /\ ret' = "ok" /\ out' = <<>>
    /\ stage' = "stage"
    /\ isaac_lab_scene' = scene_arg
    /\ path_filter' = StoredFilter(path_filter_arg)
    /\ logger_id' = NewLoggerId
    /\ logged_meshes' = after_stop.logged
    /\ last_usd_transforms' = after_stop.usd
    /\ last_physx_transforms' = after_stop.physx
    /\ last_isaac_lab_transforms' = after_stop.isaac
    /\ seen' = {} /\ geomLog' = NoHistory /\ lastVisible' = {}
    /\ UNCHANGED <<world, use_physx_transforms, util, flat, wrap, aux>>

\* a clear_logged_meshes that empties the USD transform memo as well
clear_logged_meshes_and_transforms ==
    /\ op' = "clear_logged_meshes" /\ lastOp' = "clear_logged_meshes"
    /\ ret' = "ok" /\ out' = <<>>
    /\ logged_meshes' = {}
    /\ last_usd_transforms' = EmptyDict
    /\ seen' = {} /\ geomLog' = NoHistory
    /\ UNCHANGED <<world, config, last_physx_transforms,
                   last_isaac_lab_transforms, lastVisible, util, flat, wrap, aux>>

\* self._logged_meshes.clear()
clear_logged_meshes ==
    /\ op' = "clear_logged_meshes" /\ lastOp' = "clear_logged_meshes"
    /\ ret' = "ok" /\ out' = <<>>
    /\ logged_meshes' = {}
    /\ seen' = {} /\ geomLog' = NoHistory
    /\ UNCHANGED <<world, config, memos, lastVisible, util, flat, wrap, aux>>

(***************************************************************************)
(* The caller's edits of the stage and the simulation's moves              *)
(***************************************************************************)
Edited == op' = "edit" /\ ret' = "none" /\ out' = <<>> /\ UNCHANGED lastOp

DefinePrim(p) ==
    /\ p \in Removable \ stagePrims
    /\ stagePrims' = stagePrims \cup {p}
    /\ Edited
    /\ UNCHANGED <<xf, pose, material, logger, hist, util, flat, wrap, aux>>

RemovePrim(p) ==
    /\ p \in Removable \cap stagePrims
    /\ stagePrims' = stagePrims \ {p}
    /\ Edited
    /\ UNCHANGED <<xf, pose, material, logger, hist, util, flat, wrap, aux>>

SetLocalTransform(p, v) ==
    /\ p \in Movable \cap stagePrims
    /\ v # xf[p]
    /\ xf' = [xf EXCEPT ![p] = v]
    /\ Edited
    /\ UNCHANGED <<stagePrims, pose, material, logger, hist, util, flat, wrap, aux>>

SimulationStep(b, v) ==
    /\ v # pose[b]
    /\ pose' = [pose EXCEPT ![b] = v]
    /\ Edited
    /\ UNCHANGED <<stagePrims, xf, material, logger, hist, util, flat, wrap, aux>>

(***************************************************************************)
(* Construction and the specification                                      *)
(***************************************************************************)
\* the first positional argument of UsdRerunLogger(...): nothing, a flag,
\* or (as the examples do) a stage
ConstructorArgs == {"False", "True", "Stage"}

\* no mesh read, nothing computed
NoMeshData ==
    [faceData |-> "values", counts |-> <<>>, indices |-> <<>>, nv |-> 0,
     st |-> "none", texcoords |-> 0, normals |-> "none", normals_len |-> 0,
     subsets |-> <<>>]

NoMeshOut ==
    [done |-> FALSE, raised |-> FALSE, should_flatten |-> FALSE,
     vertices |-> <<>>, normals |-> <<>>, texcoords |-> <<>>,
     triangles |-> <<>>, face_to_triangle_indices |-> <<>>, logged |-> <<>>]

FlatIdle ==
    /\ meshIn = NoMeshData
    /\ meshOut = NoMeshOut

\* no recording active
\*   frames   frames captured while it was the active recording
\*   episode  the episode it was started in, step the latest step then
\*   clean    no recording was active when it was started
\*   resets   resets made since, while it stayed active
NoRecording ==
    [name |-> "None", frames |-> 0, episode |-> -1, step |-> -1,
     clean |-> TRUE, resets |-> 0]

NoWrapperArgs ==
    [episode_trigger |-> "None", step_trigger |-> "None",
     recording_length |-> 0]

\* the fields LogRerun.__init__ sets that do not depend on its arguments
WrapperFresh ==
    /\ step_id = -1
    /\ episode_id = -1
    /\ timeline_name = "None"
    /\ recorded_frames = 0
    /\ closed = FALSE
    /\ calls = <<>>
    /\ recNow = NoRecording
    /\ finished = <<>>
    /\ started = <<>>
    /\ firings = 0
    /\ stepFired = FALSE

WrapIdle ==
    /\ wrapperArgs = NoWrapperArgs
    /\ episode_trigger = "None"
    /\ step_trigger = "None"
    /\ recording_length = [inf |-> TRUE, n |-> 0]
    /\ WrapperFresh

\* recording streams are [kind, n, app]; NoStream is Python's None
NoStream == [kind |-> "none", n |-> 0, app |-> ""]

NoCall ==
    [fn |-> "none", recording_stream |-> NoStream, save_path |-> "None",
     application_id |-> "None", active |-> NoStream, raised |-> "None",
     result |-> NoStream]

UtilIdle ==
    /\ globalStream = NoStream
    /\ created = 0
    /\ saved = {}
    /\ dirs = {}
    /\ call = NoCall

\* no IsaacLabRerunLogger was constructed
LabIdle ==
    /\ scene = "None"
    /\ scene_stage = "None"
    /\ num_envs = 0
    /\ articulations = <<>>
    /\ body_pose_w = <<>>
    /\ logged_envs = <<>>
    /\ scene_structure_logged = FALSE
    /\ last_transforms = EmptyDict
    /\ structure_found = FALSE

NoDownload == [url |-> "None", opened |-> FALSE]

\* download_image was never called
DownloadIdle ==
    /\ cache_dir = "absent"
    /\ files = {}
    /\ server = <<>>
    /\ disk = "ok"
    /\ lastDownload = NoDownload

AuxIdle == LabIdle /\ DownloadIdle

Init ==
    /\ stagePrims = Paths
    /\ xf = [p \in Paths |-> 0]
    /\ pose = [b \in Bodies |-> 0]
    /\ material = NoMaterials
    /\ stage = "None"
    /\ logger_id = "None"
    /\ path_filter = NoFilter
    /\ logged_meshes = {}
    /\ last_usd_transforms = EmptyDict
    /\ use_physx_transforms \in ConstructorArgs
    /\ last_physx_transforms = EmptyDict
    /\ isaac_lab_scene = "None"
    /\ last_isaac_lab_transforms = EmptyDict
    /\ op = "construct" /\ ret = "none" /\ out = <<>>
    /\ seen = {} /\ geomLog = NoHistory /\ lastVisible = {}
    /\ lastOp = "construct"
    /\ UtilIdle
    /\ AuxIdle
    /\ FlatIdle
    /\ WrapIdle

Next ==
    \/ \E f \in FilterArgs, sc \in {"None", "scene"} : initialize(f, sc)
    \/ stop
    \/ clear_logged_meshes
    \/ log_stage
    \/ \E p \in Paths : DefinePrim(p)
    \/ \E p \in Paths : RemovePrim(p)
    \/ \E p \in Paths, v \in XfValues : SetLocalTransform(p, v)
    \/ \E b \in Bodies, v \in XfValues : SimulationStep(b, v)

Spec == Init /\ [][Next]_vars

(***************************************************************************)
(* get_recording_stream (src/usd_rerun_logger/util.py)                     *)
(***************************************************************************)
\* the stream a caller passes, and the one rerun.init() makes global
PassedStream == [kind |-> "passed", n |-> 0, app |-> "caller_app"]
GlobalStream == [kind |-> "global", n |-> 0, app |-> "global_app"]

StreamArgs == {NoStream, PassedStream}
SavePaths  == {"None", "/tmp/recording.rrd", "out/run.rrd"}
AppIds     == {"None", "my_app", ""}

\* Path(save_path).parent
Parent(save_path) ==
    CASE save_path = "/tmp/recording.rrd" -> "/tmp"
      [] save_path = "out/run.rrd" -> "out"
      [] OTHER -> "."

\* rr.get_data_recording(recording): the stream given, else the active one
get_data_recording(recording) ==
    IF recording # NoStream THEN recording ELSE globalStream

\* get_recording_stream that looks at its argument only, never at the
\* active recording
get_recording_stream_result_blind(recording_stream, save_path, application_id) ==
    LET found == recording_stream
        app == IF application_id = "None" THEN "usd_rerun_logger"
               ELSE application_id
        recording == IF save_path # "None"
                     THEN [kind |-> "created", n |-> created + 1, app |-> app]
                     ELSE found
    IN  [raised |-> IF recording = NoStream THEN "ValueError" ELSE "None",
         recording |-> recording]

\* get_recording_stream that keeps a stream it was given even when asked
\* to save
get_recording_stream_result_reusing(recording_stream, save_path, application_id) ==
    LET found == get_data_recording(recording_stream)
        app == IF application_id = "None" THEN "usd_rerun_logger"
               ELSE application_id
        recording == IF save_path # "None" /\ found = NoStream
                     THEN [kind |-> "created", n |-> created + 1, app |-> app]
                     ELSE found
    IN  [raised |-> IF recording = NoStream THEN "ValueError" ELSE "None",
         recording |-> recording]

\* what get_recording_stream raises, or the stream it returns
get_recording_stream_result(recording_stream, save_path, application_id) ==
    LET found == get_data_recording(recording_stream)
        app == IF application_id = "None" THEN "usd_rerun_logger"
               ELSE application_id
        recording == IF save_path # "None"
                     THEN [kind |-> "created", n |-> created + 1, app |-> app]
                     ELSE found
    IN  [raised |-> IF recording = NoStream THEN "ValueError" ELSE "None",
         recording |-> recording]

get_recording_stream(recording_stream, save_path, application_id) ==
    /\ save_path # "None" => created < MaxStreams
    /\ LET r == get_recording_stream_result(recording_stream, save_path,
                                            application_id)
       IN  /\ call' = [fn |-> "get_recording_stream",
                       recording_stream |-> recording_stream,
                       save_path |-> save_path,
                       application_id |-> application_id,
                       active |-> globalStream,
                       raised |-> r.raised,
                       result |-> IF r.raised = "None" THEN r.recording
                                  ELSE NoStream]
           /\ IF save_path # "None"
              THEN /\ created' = created + 1
                   /\ dirs' = dirs \cup {Parent(save_path)}
                   /\ saved' = saved \cup {[stream |-> r.recording,
                                             path |-> save_path]}
              ELSE UNCHANGED <<created, dirs, saved>>
    /\ UNCHANGED <<globalStream, world, logger, obs, hist, lastOp, flat, wrap, aux>>

\* rerun.init() / rr.set_global_data_recording(...): the caller sets or
\* unsets the active recording
set_global_data_recording(recording) ==
    /\ recording # globalStream
    /\ globalStream' = recording
    /\ UNCHANGED <<created, saved, dirs, call, world, logger, obs, hist, lastOp, flat, wrap, aux>>

NextUtil ==
    \/ \E rs \in StreamArgs, sp \in SavePaths, app \in AppIds :
           get_recording_stream(rs, sp, app)
    \/ \E g \in {NoStream, GlobalStream} : set_global_data_recording(g)

SpecUtil == Init /\ [][NextUtil]_vars

(***************************************************************************)
(* Vocabulary of the properties                                            *)
(***************************************************************************)
\* the paths log_stage runs a geometry step for
Drawable == {p \in Paths : IsMesh(p) \/ IsCube(p)}

\* the entities the geometry step of a mesh or cube path logs
Geometry(p) == IF IsMesh(p) THEN log_mesh(p) ELSE log_cube(p)

\* The memo a visible prim's transform step compares against and the value
\* it reads, given the Isaac Lab pose memo the call works with:
\*   has   the step gets a value to compare at all
TransformSource(p, isaac_memo) ==
    IF p \in DOMAIN isaac_memo
    THEN [route |-> "isaac", has |-> TRUE, val |-> pose[p]]
    ELSE IF Truthy(use_physx_transforms) /\ PrimInfo(p).rigid
    THEN LET t == get_rigidbody_transformation(p)
         IN  [route |-> "physx", has |-> t.ret_val, val |-> t.value]
    ELSE IF IsXformable(p)
    THEN [route |-> "usd", has |-> TRUE, val |-> xf[p]]
    ELSE [route |-> "none", has |-> FALSE, val |-> 0]

\* the memo of a route, out of the three given
MemoOf(route, usd, physx, isaac) ==
    CASE route = "usd" -> usd
      [] route = "physx" -> physx
      [] route = "isaac" -> isaac
      [] OTHER -> EmptyDict

AllMemosEmpty ==
    /\ last_usd_transforms = EmptyDict
    /\ last_physx_transforms = EmptyDict
    /\ last_isaac_lab_transforms = EmptyDict

(***************************************************************************)
(* Properties                                                              *)
(***************************************************************************)
\* C1: over the log_stage calls made since the logged set was last emptied
\* (no clear_logged_meshes, stop or initialize in between), every mesh or
\* cube path has had its geometry, the entities its geometry step yields,
\* emitted exactly once if some call saw it visible, and not at all
\* otherwise: the first call that sees it emits it, no later call does.
C1_GeometryOnce ==
    \A p \in Drawable :
        geomLog[p] = IF p \in seen THEN Geometry(p) ELSE <<>>

\* a later call sees the mesh again and emits no geometry for it
C1_Witness ==
    /\ op = "log_stage" /\ ret = "ok"
    /\ Mesh \in lastVisible /\ Parts \in lastVisible
    /\ Len(geomLog[Mesh]) = 1 /\ Len(geomLog[Parts]) = 1
    /\ SelectEntries(out, GeometryKinds, Mesh) = <<>>
    /\ SelectEntries(out, GeometryKinds, Parts) = <<>>

\* the step run twice on a memo with one value
C2_StepTwice(step(_, _, _), memo, keys) ==
    \A p \in keys, v \in XfValues :
        LET first  == step(memo, p, v)
            second == step(first.memo, p, v)
            differs == p \notin DOMAIN memo \/ memo[p] # v
        IN  /\ second.entries = <<>>
            /\ second.memo = first.memo
            /\ p \in DOMAIN first.memo /\ first.memo[p] = v
            /\ IF differs
               THEN first.entries = <<Entry("Transform3D", p, p, v)>>
               ELSE first.entries = <<>>

\* C2: a transform-diff step run twice in a row with an equal value emits
\* exactly one entry, on the first run, when the path is new or the value
\* differs from the memo, and none on the second run; after any run the memo
\* holds the value.  Within log_stage, a visible prim gets one transform
\* entry when its value differs from the memo (or it has none) and no entry
\* when it equals the memo, and the memo then holds the value.
C2_TransformDiff ==
    [][ /\ C2_StepTwice(log_usd_transform, last_usd_transforms, Paths)
        /\ C2_StepTwice(log_body_pose, last_isaac_lab_transforms, Bodies)
        /\ (op' = "log_stage" /\ ret' = "ok") =>
             \A p \in lastVisible' :
                LET src  == TransformSource(p, last_isaac_lab_transforms')
                    memo == MemoOf(src.route, last_usd_transforms,
                                   last_physx_transforms,
                                   last_isaac_lab_transforms)
                    now  == MemoOf(src.route, last_usd_transforms',
                                   last_physx_transforms',
                                   last_isaac_lab_transforms')
                IN  src.has =>
                      /\ p \in DOMAIN now /\ now[p] = src.val
                      /\ CountAt(out', "Transform3D", p) =
                           (IF p \in DOMAIN memo /\ memo[p] = src.val
                            THEN 0 ELSE 1)
      ]_vars

\* the mesh was moved, logged, and the call after that logged no transform
C2_Witness ==
    /\ op = "log_stage" /\ ret = "ok"
    /\ Mesh \in lastVisible
    /\ xf[Mesh] = 1
    /\ Mesh \in DOMAIN last_usd_transforms /\ last_usd_transforms[Mesh] = 1
    /\ CountAt(out, "Transform3D", Mesh) = 0

\* C3: a node whose transform step has memoized its transform (in the USD
\* or the PhysX last-transform memo) and that was visible in one log_stage
\* call but is not visible in the next gets exactly one clear instruction
\* for its path in the second call, which deletes its memo entry; a call in
\* which the node was already absent emits no clear for it.
C3_ClearOnDisappear ==
    [][ (op' = "log_stage" /\ ret' = "ok") =>
          /\ \A p \in lastVisible \ lastVisible' :
                (p \in DOMAIN last_usd_transforms
                    \cup DOMAIN last_physx_transforms) =>
                  /\ CountAt(out', "Clear", p) = 1
                  /\ p \notin DOMAIN last_usd_transforms'
                  /\ p \notin DOMAIN last_physx_transforms'
          /\ \A p \in Paths \ (lastVisible \cup lastVisible') :
                CountAt(out', "Clear", p) = 0
      ]_vars

\* C4: a path in the logged set leaves it only through clear_logged_meshes,
\* stop or initialize; log_stage never removes one, not even in a call that
\* issues a clear instruction for the path, and it emits no geometry for a
\* path that is already in the set (so none for a node that reappears).
C4_LoggedSetKept ==
    [][ /\ ~(logged_meshes \subseteq logged_meshes') =>
             op' \in {"clear_logged_meshes", "stop", "initialize"}
        /\ op' = "log_stage" =>
             /\ logged_meshes \subseteq logged_meshes'
             /\ \A p \in logged_meshes :
                   SelectEntries(out', GeometryKinds, p) = <<>>
      ]_vars

\* a call that clears the mesh's path and keeps the path in the logged set
C4_Witness ==
    /\ op = "log_stage" /\ ret = "ok"
    /\ CountAt(out, "Clear", Mesh) = 1
    /\ Mesh \in logged_meshes
    /\ Mesh \notin lastVisible

\* what the reset operations leave: stop() on an active session and
\* initialize() empty the logged set and every memo together
C5_ResetTogether ==
    /\ (op' = "stop" /\ logger_id # "None") =>
          logged_meshes' = {} /\ AllMemosEmpty'
    /\ op' = "initialize" => logged_meshes' = {} /\ AllMemosEmpty'

\* the first log_stage after initialize emits geometry for every visible
\* mesh and cube
C5_GeometryAgain ==
    (lastOp = "initialize" /\ op' = "log_stage") =>
        /\ ret' = "ok"
        /\ \A p \in lastVisible' \cap Drawable :
              SelectEntries(out', GeometryKinds, p) = Geometry(p)

\* C5 as stated: after stop() on an active session and after initialize()
\* the logged set and every last-transform memo are empty together, and the
\* first log_stage of the new session emits a transform for every visible
\* transformable node and geometry for every visible mesh and cube.
C5_Original ==
    [][ /\ C5_ResetTogether
        /\ C5_GeometryAgain
        /\ (lastOp = "initialize" /\ op' = "log_stage") =>
             \A p \in lastVisible' :
                IsXformable(p) => CountAt(out', "Transform3D", p) = 1
      ]_vars

\* C5: after stop() on an active session and after initialize() the logged
\* set and every last-transform memo are empty together, and the first
\* log_stage of the new session emits geometry for every visible mesh and
\* cube and one transform for every visible transformable node, except that
\* a rigid body read through PhysX (use_physx_transforms set) for which
\* PhysX reports no transform gets none.
C5_FreshSession ==
    [][ /\ C5_ResetTogether
        /\ C5_GeometryAgain
        /\ (lastOp = "initialize" /\ op' = "log_stage") =>
             \A p \in lastVisible' :
                IsXformable(p) =>
                  CountAt(out', "Transform3D", p) =
                    (IF TransformSource(p, last_isaac_lab_transforms').has
                     THEN 1 ELSE 0)
      ]_vars

\* the first call of a session: the static mesh with subsets gets its
\* transform and its geometry
C5_Witness ==
    /\ op = "log_stage" /\ ret = "ok"
    /\ Parts \in lastVisible /\ Cube \in lastVisible
    /\ CountAt(out, "Transform3D", Parts) = 1
    /\ SelectEntries(out, GeometryKinds, Parts) = Geometry(Parts)
    /\ SelectEntries(out, GeometryKinds, Cube) = Geometry(Cube)

\* C6: clear_logged_meshes empties the logged set and leaves the
\* last-transform memos, the stage and the session as they were; the next
\* log_stage emits the geometry of every visible mesh and cube exactly once
\* and emits no transform for a node whose value equals its memo entry.
C6_ClearLoggedMeshesFrame ==
    [][ /\ op' = "clear_logged_meshes" =>
             /\ logged_meshes' = {}
             /\ UNCHANGED <<memos, config, world>>
        /\ (lastOp = "clear_logged_meshes" /\ op' = "log_stage"
               /\ ret' = "ok") =>
             /\ \A p \in lastVisible' \cap Drawable :
                   SelectEntries(out', GeometryKinds, p) = Geometry(p)
             /\ \A p \in lastVisible' :
                   LET src  == TransformSource(p, last_isaac_lab_transforms')
                       memo == MemoOf(src.route, last_usd_transforms,
                                      last_physx_transforms,
                                      last_isaac_lab_transforms)
                   IN  (src.has /\ p \in DOMAIN memo /\ memo[p] = src.val) =>
                          CountAt(out', "Transform3D", p) = 0
      ]_vars

\* the call after clear_logged_meshes: geometry again, no transform
C6_Witness ==
    /\ op = "log_stage" /\ ret = "ok"
    /\ Mesh \in lastVisible
    /\ SelectEntries(out, GeometryKinds, Mesh) = Geometry(Mesh)
    /\ CountAt(out, "Transform3D", Mesh) = 0
    /\ Mesh \in DOMAIN last_usd_transforms

\* C7: log_stage called while no session/stage is active (before
\* initialize, or after stop) surfaces an error to the caller; it never
\* returns normally having emitted nothing.
C7_NoSessionRaises ==
    (op = "log_stage" /\ stage = "None") => ret = "raised"

\* C8: get_recording_stream raises ValueError exactly when no stream was
\* passed, no active (global) stream is set and no save_path was given; in
\* every other case it returns a stream.
C8_RaisesExactlyWhenNothingGiven ==
    call.fn = "get_recording_stream" =>
        /\ call.raised \in {"None", "ValueError"}
        /\ (call.raised = "ValueError") <=>
              /\ call.recording_stream = NoStream
              /\ call.active = NoStream
              /\ call.save_path = "None"
        /\ call.raised = "None" => call.result # NoStream

\* the call that raises
C8_Witness ==
    /\ call.fn = "get_recording_stream"
    /\ call.raised = "ValueError"
    /\ created > 0

\* C9: without save_path the call returns the stream resolved from its
\* argument, the passed stream if any and else the active one; with
\* save_path it returns a stream created by that call and saved to that
\* path, whose application id is the one given, or "usd_rerun_logger" when
\* none was given, whether or not a stream was passed.
C9_ReturnedStream ==
    (call.fn = "get_recording_stream" /\ call.raised = "None") =>
        IF call.save_path = "None"
        THEN call.result = (IF call.recording_stream # NoStream
                            THEN call.recording_stream ELSE call.active)
        ELSE /\ call.result.kind = "created"
             /\ call.result.n = created
             /\ call.result.app = (IF call.application_id = "None"
                                   THEN "usd_rerun_logger"
                                   ELSE call.application_id)
             /\ [stream |-> call.result, path |-> call.save_path] \in saved
             /\ Parent(call.save_path) \in dirs
             /\ \A f \in saved : f.stream = call.result =>
                                    f.path = call.save_path

\* a stream was passed together with a save_path and no application id
C9_Witness ==
    /\ call.fn = "get_recording_stream"
    /\ call.recording_stream = PassedStream
    /\ call.save_path = "out/run.rrd"
    /\ call.application_id = "None"
    /\ call.result.kind = "created"
    /\ call.result.app = "usd_rerun_logger"

\* C10: a logger constructed with a stage and then asked to log_stage, with
\* no initialize in between, logs that stage: every visible prim has its
\* transform and its geometry emitted.
C10_ConstructedWithStageLogs ==
    [][ (lastOp = "construct" /\ use_physx_transforms = "Stage"
            /\ op' = "log_stage") =>
          \A p \in stagePrims :
             PrimInfo(p).purpose # "guide" =>
               /\ IsXformable(p) => CountAt(out', "Transform3D", p) = 1
               /\ p \in Drawable =>
                     SelectEntries(out', GeometryKinds, p) = Geometry(p)
      ]_vars

(***************************************************************************)
(* The triangulation of _log_mesh (src/isaac_rerun_logger/__init__.py):    *)
(* the flatten decision, the two triangulation loops and the subset        *)
(* slicing, on the data the mesh accessors return.  Vertex references and  *)
(* triangle positions count from 0, as in the code; a vertex position is   *)
(* named by the index the vertex has in the points attribute.              *)
(***************************************************************************)
\* faces per mesh and corners per face
MaxFaces == 2
MaxFaceSize == 5

FaceSizes == 2..MaxFaceSize

\* face_vertex_counts: no face, or one to MaxFaces faces
CountLists == UNION {[1..n -> FaceSizes] : n \in 0..MaxFaces}

RECURSIVE Sum(_)
Sum(s) == IF s = <<>> THEN 0 ELSE Head(s) + Sum(Tail(s))

RECURSIVE Largest(_)
Largest(s) ==
    IF s = <<>> THEN 0
    ELSE LET rest == Largest(Tail(s))
         IN  IF Head(s) > rest THEN Head(s) ELSE rest

\* how face_vertex_indices refers to the points: every corner its own
\* point, or the faces sharing the first points, in either winding
IndexLayouts == {"soup", "shared", "reversed"}

\* the points of a mesh that has no face
LoosePoints == 3

NumPoints(counts, layout) ==
    IF counts = <<>> THEN LoosePoints
    ELSE IF layout = "soup" THEN Sum(counts) ELSE Largest(counts)

FaceVertexIndices(counts, layout) ==
    LET nv == NumPoints(counts, layout)
    IN  [i \in 1..Sum(counts) |->
            CASE layout = "soup"     -> i - 1
              [] layout = "shared"   -> (i - 1) % nv
              [] layout = "reversed" -> nv - 1 - ((i - 1) % nv)]

\* a set of face indices as the ascending list a subset stores
RECURSIVE Ascending(_)
Ascending(S) ==
    IF S = {} THEN <<>>
    ELSE LET least == CHOOSE x \in S : \A y \in S : x <= y
         IN  <<least>> \o Ascending(S \ {least})

FaceSubset(path, faces) ==
    [path |-> path, elementType |-> "face", indices |-> Ascending(faces)]

\* a subset with its element type and its face indices as written
Subset(path, elementType, indices) ==
    [path |-> path, elementType |-> elementType, indices |-> indices]

\* the face indices 0 .. nfaces-1 from the last to the first
Descending(nfaces) == [i \in 1..nfaces |-> nfaces - i]

\* GetAllGeomSubsets: no subsets, two face subsets that split the faces,
\* two that both hold the first face, a subset of another element type
\* before a face subset that lists the faces from the last to the first,
\* and subsets that hold a face index the mesh does not have: one too
\* large, -1, or one below -nfaces
SubsetLayouts(nfaces) ==
    LET all == 0..(nfaces - 1)
    IN  {<<>>}
        \cup {<<FaceSubset("/World/Mesh/a", S),
               FaceSubset("/World/Mesh/b", all \ S)>> : S \in SUBSET all}
        \cup {<<FaceSubset("/World/Mesh/a", {0}),
               FaceSubset("/World/Mesh/b", all)>>}
        \cup {<<FaceSubset("/World/Mesh/a", {0})>>}
        \cup {<<Subset("/World/Mesh/a", "edge", <<0>>),
               Subset("/World/Mesh/b", "face", Descending(nfaces))>>}
        \cup {<<Subset("/World/Mesh/a", "face", <<nfaces, 0>>),
               FaceSubset("/World/Mesh/b", all)>>}
        \cup {<<Subset("/World/Mesh/a", "face", <<0, bad>>),
               FaceSubset("/World/Mesh/b", all)>> :
                   bad \in {-1, -(nfaces + 1)}}

\* the "st" primvar: its interpolation and what its length follows
TexcoordKinds ==
    {[st |-> "none", per |-> "point"],
     [st |-> "constant", per |-> "one"],
     [st |-> "constant", per |-> "corner"],
     [st |-> "uniform", per |-> "face"],
     [st |-> "vertex", per |-> "point"],
     [st |-> "vertex", per |-> "corner"],
     [st |-> "faceVarying", per |-> "corner"]}

\* the interpolation of the normals, "none" without a value
NormalKinds == {"none", "constant", "uniform", "vertex", "faceVarying"}

\* the length of an attribute of a mesh with faces c laid out as l
AttributeLen(per, c, l) ==
    CASE per = "one"    -> 1
      [] per = "face"   -> Len(c)
      [] per = "point"  -> NumPoints(c, l)
      [] per = "corner" -> Sum(c)

NormalsPer(interpolation) ==
    CASE interpolation = "constant"    -> "one"
      [] interpolation = "uniform"     -> "face"
      [] interpolation = "vertex"      -> "point"
      [] interpolation = "faceVarying" -> "corner"
      [] OTHER -> "one"

\* the data _log_mesh reads from a mesh prim whose face attributes hold
\* values
\*   faceData     "values"; "no_attr" when a face attribute is not a valid
\*                attribute, "no_value" when its Get() is None
\*   st           interpolation of the "st" primvar, "none" without one
\*   texcoords    len(texcoords), 0 without
\*   normals      interpolation of the normals, "none" without a value
\*   normals_len  len(normals), 0 without
\* The i-th value of an attribute is named i - 1.
MeshRead(c, l, uv, n, sub) ==
    [faceData |-> "values",
     counts |-> c, indices |-> FaceVertexIndices(c, l),
     nv |-> NumPoints(c, l), st |-> uv.st,
     texcoords |-> IF uv.st = "none" THEN 0 ELSE AttributeLen(uv.per, c, l),
     normals |-> n,
     normals_len |-> IF n = "none" THEN 0 ELSE AttributeLen(NormalsPer(n), c, l),
     subsets |-> sub]

\* the texcoords of the meshes that have subsets: none, or face-varying
SubsetTexcoordKinds ==
    {[st |-> "none", per |-> "point"], [st |-> "faceVarying", per |-> "corner"]}

\* the mesh prims read: without subsets under every kind of texcoords and
\* normals, with subsets under the two kinds of texcoords above
MeshesWithFaces ==
    UNION {
    {MeshRead(c, l, uv, n, <<>>) :
        l \in IndexLayouts, uv \in TexcoordKinds, n \in NormalKinds}
    \cup
    {MeshRead(c, l, uv, "none", sub) :
        l \in IndexLayouts, uv \in SubsetTexcoordKinds,
        sub \in SubsetLayouts(Len(c)) \ {<<>>}} : c \in CountLists}

\* mesh prims with points and without face data
MeshesWithoutFaces ==
    {[NoMeshData EXCEPT !.faceData = d, !.nv = LoosePoints] :
        d \in {"no_attr", "no_value"}}

MeshInputs == MeshesWithFaces \cup MeshesWithoutFaces

\* a flatten decision without the "!= len(vertices)" test of the fallback
should_flatten_by_length(m) ==
    \/ m.st = "faceVarying"
    \/ m.normals = "faceVarying"
    \/ (m.st # "none" /\ m.texcoords = Len(m.indices))

\* a flatten decision that looks at the normals only
should_flatten_normals_only(m) ==
    m.normals = "faceVarying"

\* a flatten decision without the length fallback
should_flatten_by_tag(m) ==
    \/ m.st = "faceVarying"
    \/ m.normals = "faceVarying"

\* "--- Flattening Logic ---"
should_flatten(m) ==
    \/ m.st = "faceVarying"
    \/ m.normals = "faceVarying"
    \/ (m.st # "none" /\ m.texcoords = Len(m.indices)
           /\ m.texcoords # m.nv)

\* a fan that gives a face of fewer than three corners a triangle
flat_face_degenerate(count, idx) ==
    IF count < 3 THEN << <<idx, idx, idx + 1>> >>
    ELSE IF count = 3 THEN << <<idx, idx + 1, idx + 2>> >>
    ELSE IF count = 4
    THEN << <<idx, idx + 1, idx + 2>>, <<idx, idx + 2, idx + 3>> >>
    ELSE [i \in 1..(count - 2) |-> <<idx, idx + i, idx + i + 1>>]

\* a fan written with range(1, count - 2)
flat_face_short(count, idx) ==
    IF count = 3 THEN << <<idx, idx + 1, idx + 2>> >>
    ELSE IF count = 4
    THEN << <<idx, idx + 1, idx + 2>>, <<idx, idx + 2, idx + 3>> >>
    ELSE [i \in 1..(count - 3) |-> <<idx, idx + i, idx + i + 1>>]

\* flattened path: the triangles of one face whose corners sit at
\* idx .. idx + count - 1 of the duplicated buffer
flat_face(count, idx) ==
    IF count = 3 THEN << <<idx, idx + 1, idx + 2>> >>
    ELSE IF count = 4
    THEN << <<idx, idx + 1, idx + 2>>, <<idx, idx + 2, idx + 3>> >>
    ELSE [i \in 1..(count - 2) |-> <<idx, idx + i, idx + i + 1>>]

\* a shared path that splits a quad along its other diagonal
shared_face_other_diagonal(count, face_vertex_indices, idx) ==
    LET at(j) == face_vertex_indices[j + 1]
    IN  IF count = 3 THEN << <<at(idx), at(idx + 1), at(idx + 2)>> >>
        ELSE IF count = 4
        THEN << <<at(idx), at(idx + 1), at(idx + 3)>>,
                <<at(idx + 1), at(idx + 2), at(idx + 3)>> >>
        ELSE [i \in 1..(count - 2) |->
                 <<at(idx), at(idx + i), at(idx + i + 1)>>]

\* shared path: the triangles of one face, read through
\* face_vertex_indices
shared_face(count, face_vertex_indices, idx) ==
    LET at(j) == face_vertex_indices[j + 1]
    IN  IF count = 3 THEN << <<at(idx), at(idx + 1), at(idx + 2)>> >>
        ELSE IF count = 4
        THEN << <<at(idx), at(idx + 1), at(idx + 2)>>,
                <<at(idx), at(idx + 2), at(idx + 3)>> >>
        ELSE [i \in 1..(count - 2) |->
                 <<at(idx), at(idx + i), at(idx + i + 1)>>]

\* one of the two loops "for face_idx, count in enumerate(...)"; acc holds
\* triangles, face_to_triangle_indices, idx and current_triangle_index
RECURSIVE triangulate(_, _, _, _)
triangulate(m, flattened, face, acc) ==
    IF face > Len(m.counts) THEN acc
    ELSE LET count == m.counts[face]
             new == IF flattened THEN flat_face(count, acc.idx)
                    ELSE shared_face(count, m.indices, acc.idx)
             at == [i \in 1..Len(new) |-> acc.current_triangle_index + i - 1]
         IN  triangulate(m, flattened, face + 1,
                 [triangles |-> acc.triangles \o new,
                  face_to_triangle_indices |->
                      Append(acc.face_to_triangle_indices, at),
                  idx |-> acc.idx + count,
                  current_triangle_index |->
                      acc.current_triangle_index + Len(new)])

\* list[i] of a Python list: a negative i counts from the end, and an i
\* outside -len .. len-1 raises IndexError
list_item(list, i) ==
    IF i >= 0 /\ i < Len(list) THEN [raised |-> FALSE, value |-> list[i + 1]]
    ELSE IF i < 0 /\ -i <= Len(list)
    THEN [raised |-> FALSE, value |-> list[Len(list) + i + 1]]
    ELSE [raised |-> TRUE, value |-> <<>>]

\* "subset_triangle_indices.extend(...)": the item read, then the later
\* iterations
extend(item, rest) ==
    IF item.raised THEN [at |-> <<>>, raised |-> TRUE]
    ELSE [at |-> item.value \o rest.at, raised |-> rest.raised]

\* an extend that keeps the first triangle of the face only
extend_first(item, rest) ==
    IF item.raised THEN [at |-> <<>>, raised |-> TRUE]
    ELSE [at |-> (IF item.value = <<>> THEN <<>> ELSE <<Head(item.value)>>)
                    \o rest.at,
          raised |-> rest.raised]

\* a slicing that takes one triangle per face
RECURSIVE subset_triangle_indices_one_per_face(_, _)
subset_triangle_indices_one_per_face(included_faces, face_to_triangle_indices) ==
    IF included_faces = <<>> THEN [at |-> <<>>, raised |-> FALSE]
    ELSE IF Head(included_faces) < Len(face_to_triangle_indices)
    THEN extend_first(list_item(face_to_triangle_indices, Head(included_faces)),
                      subset_triangle_indices_one_per_face(
                          Tail(included_faces), face_to_triangle_indices))
    ELSE subset_triangle_indices_one_per_face(
             Tail(included_faces), face_to_triangle_indices)

\* "Collect all triangles for these faces": [at, raised]
RECURSIVE subset_triangle_indices(_, _)
subset_triangle_indices(included_faces, face_to_triangle_indices) ==
    IF included_faces = <<>> THEN [at |-> <<>>, raised |-> FALSE]
    ELSE IF Head(included_faces) < Len(face_to_triangle_indices)
    THEN extend(list_item(face_to_triangle_indices, Head(included_faces)),
                subset_triangle_indices(Tail(included_faces),
                                        face_to_triangle_indices))
    ELSE subset_triangle_indices(Tail(included_faces),
                                 face_to_triangle_indices)

\* _log_mesh_data: the Mesh3D logged at a path; positions are the places
\* its triangles have in the mesh's triangle list
MeshData(path, vertices, triangles, at) ==
    [kind |-> "Mesh3D", path |-> path, vertices |-> vertices,
     triangles |-> triangles, positions |-> at]

\* rr.log(entity_path, rr.Points3D(positions=vertices), static=True)
PointsData(path, vertices) ==
    [kind |-> "Points3D", path |-> path, vertices |-> vertices,
     triangles |-> <<>>, positions |-> <<>>]

\* triangles_list[subset_triangle_indices]
take(triangles_list, at) == [i \in 1..Len(at) |-> triangles_list[at[i] + 1]]

\* the end of one iteration of the subset loop, gathered being its
\* subset_triangle_indices and rest the later iterations: [logged, raised]
log_gathered(subset, vertices, triangles_list, gathered, rest) ==
    IF gathered.raised THEN [logged |-> <<>>, raised |-> TRUE]
    ELSE IF gathered.at = <<>> THEN rest
    ELSE [logged |-> <<MeshData(subset.path, vertices,
                                take(triangles_list, gathered.at),
                                gathered.at)>> \o rest.logged,
          raised |-> rest.raised]

\* one iteration of the subset loop
log_subset_mesh(subset, vertices, triangles_list, face_to_triangle_indices, rest) ==
    IF subset.elementType # "face" THEN rest
    ELSE IF subset.indices = <<>> THEN rest
    ELSE log_gathered(subset, vertices, triangles_list,
                      subset_triangle_indices(subset.indices,
                                              face_to_triangle_indices),
                      rest)

\* a subset loop that ends at the first subset of another element type
RECURSIVE log_subset_meshes_until_unsupported(_, _, _, _)
log_subset_meshes_until_unsupported(subsets, vertices, triangles_list, face_to_triangle_indices) ==
    IF subsets = <<>> \/ Head(subsets).elementType # "face"
    THEN [logged |-> <<>>, raised |-> FALSE]
    ELSE log_subset_mesh(Head(subsets), vertices, triangles_list,
                         face_to_triangle_indices,
                         log_subset_meshes_until_unsupported(
                             Tail(subsets), vertices, triangles_list,
                             face_to_triangle_indices))

\* the subset loop: one Mesh3D per face subset that has triangles
RECURSIVE log_subset_meshes(_, _, _, _)
log_subset_meshes(subsets, vertices, triangles_list, face_to_triangle_indices) ==
    IF subsets = <<>> THEN [logged |-> <<>>, raised |-> FALSE]
    ELSE log_subset_mesh(Head(subsets), vertices, triangles_list,
                         face_to_triangle_indices,
                         log_subset_meshes(Tail(subsets), vertices,
                                           triangles_list,
                                           face_to_triangle_indices))

\* the values 0 .. n-1 of an attribute that holds n values
Values(n) == [i \in 1..n |-> i - 1]

\* a flattening that leaves the vertex buffer as it was
flatten_positions_kept(m) == Values(m.nv)

\* "vertices = vertices[face_vertex_indices]"
flatten_positions(m) == [i \in 1..Len(m.indices) |-> m.indices[i]]

\* "Flatten normals / UVs if they are vertex-interpolated"
flatten_attribute(values, interpolation, face_vertex_indices) ==
    IF interpolation = "vertex"
    THEN [i \in 1..Len(face_vertex_indices) |->
             values[face_vertex_indices[i] + 1]]
    ELSE values

\* the loop of the path taken
triangulation(m, flattened) ==
    triangulate(m, flattened, 1,
        [triangles |-> <<>>, face_to_triangle_indices |-> <<>>,
         idx |-> 0, current_triangle_index |-> 0])

\* a _log_mesh that logs the whole mesh at its own path after the subsets
log_triangulated_and_whole(m, vertices, t) ==
    LET whole == <<MeshData("/World/Mesh", vertices, t.triangles,
                            Values(Len(t.triangles)))>>
    IN  IF Len(m.subsets) > 0
        THEN LET l == log_subset_meshes(m.subsets, vertices, t.triangles,
                                        t.face_to_triangle_indices)
             IN  [logged |-> l.logged \o whole, raised |-> l.raised]
        ELSE [logged |-> whole, raised |-> FALSE]

\* what _log_mesh logs after the triangulation t: the subsets, or the
\* whole mesh
log_triangulated(m, vertices, t) ==
    IF Len(m.subsets) > 0
    THEN log_subset_meshes(m.subsets, vertices, t.triangles,
                           t.face_to_triangle_indices)
    ELSE [logged |-> <<MeshData("/World/Mesh", vertices, t.triangles,
                                Values(Len(t.triangles)))>>,
          raised |-> FALSE]

\* the record of a run of _log_mesh
mesh_out(flattened, vertices, normals, texcoords, t, l) ==
    [done |-> TRUE, raised |-> l.raised, should_flatten |-> flattened,
     vertices |-> vertices, normals |-> normals, texcoords |-> texcoords,
     triangles |-> t.triangles,
     face_to_triangle_indices |-> t.face_to_triangle_indices,
     logged |-> l.logged]

\* the two branches of "if should_flatten"
log_mesh_flattened(m, vertices, t) ==
    mesh_out(TRUE, vertices,
             flatten_attribute(Values(m.normals_len), m.normals, m.indices),
             flatten_attribute(Values(m.texcoords), m.st, m.indices),
             t, log_triangulated(m, vertices, t))

log_mesh_shared(m, vertices, t) ==
    mesh_out(FALSE, vertices, Values(m.normals_len), Values(m.texcoords),
             t, log_triangulated(m, vertices, t))

\* _log_mesh of a mesh that has points.  Without a valid face attribute it
\* logs the points.  A face attribute without a value gives
\* np.array(None), which "is None" does not catch, and the first len() of
\* it raises TypeError.
log_mesh_triangles(m) ==
    IF m.faceData = "no_attr"
    THEN [NoMeshOut EXCEPT !.done = TRUE, !.vertices = Values(m.nv),
                           !.logged = <<PointsData("/World/Mesh", Values(m.nv))>>]
    ELSE IF m.faceData = "no_value"
    THEN [NoMeshOut EXCEPT !.done = TRUE, !.raised = TRUE,
                           !.vertices = Values(m.nv)]
    ELSE IF should_flatten(m)
    THEN log_mesh_flattened(m, flatten_positions(m), triangulation(m, TRUE))
    ELSE log_mesh_shared(m, Values(m.nv), triangulation(m, FALSE))

\* _log_mesh runs on the mesh read
LogMesh ==
    /\ ~meshOut.done
    /\ meshOut' = log_mesh_triangles(meshIn)
    /\ UNCHANGED <<meshIn, world, logger, obs, hist, lastOp, util, wrap, aux>>

\* the mesh prims _log_mesh is handed
InitMesh ==
    /\ stagePrims = Paths
    /\ xf = [p \in Paths |-> 0]
    /\ pose = [b \in Bodies |-> 0]
    /\ material = NoMaterials
    /\ stage = "None"
    /\ logger_id = "None"
    /\ path_filter = NoFilter
    /\ logged_meshes = {}
    /\ last_usd_transforms = EmptyDict
    /\ use_physx_transforms = "False"
    /\ last_physx_transforms = EmptyDict
    /\ isaac_lab_scene = "None"
    /\ last_isaac_lab_transforms = EmptyDict
    /\ op = "construct" /\ ret = "none" /\ out = <<>>
    /\ seen = {} /\ geomLog = NoHistory /\ lastVisible = {}
    /\ lastOp = "construct"
    /\ UtilIdle
    /\ AuxIdle
    /\ WrapIdle
    /\ meshIn \in MeshInputs
    /\ meshOut = NoMeshOut

NextMesh == LogMesh

SpecMesh == InitMesh /\ [][NextMesh]_vars

\* where the corners of face f (1, 2, ...) start in face_vertex_indices
FaceStart(counts, f) == Sum(SubSeq(counts, 1, f - 1))

\* the vertex references the triangles at the given positions use
ReferencesOf(triangles, at) ==
    UNION {{triangles[at[i] + 1][c] : c \in 1..3} : i \in 1..Len(at)}

\* C11: for every face of size k >= 3, on the flattened and on the shared
\* path, the triangulation appends exactly k - 2 triangles, and what they
\* refer to is the face's corners: on the shared path the set of vertex
\* references is the face's set of face_vertex_indices entries, on the
\* flattened path the references are the face's k corner slots and the
\* positions stored there are those of the face's corners.  When every face
\* has size >= 3, len(triangles) is the sum of count - 2.
C11_FanTriangles ==
    meshOut.done =>
        LET counts == meshIn.counts
        IN  /\ \A f \in 1..Len(counts) :
                 counts[f] >= 3 =>
                   LET k == counts[f]
                       idx == FaceStart(counts, f)
                       at == meshOut.face_to_triangle_indices[f]
                       refs == ReferencesOf(meshOut.triangles, at)
                       corners == {meshIn.indices[idx + j] : j \in 1..k}
                   IN  /\ Len(at) = k - 2
                       /\ {meshOut.vertices[r + 1] : r \in refs} = corners
                       /\ IF meshOut.should_flatten
                          THEN refs = idx..(idx + k - 1)
                          ELSE refs = corners
            /\ (\A f \in 1..Len(counts) : counts[f] >= 3) =>
                 Len(meshOut.triangles) =
                     Sum([f \in 1..Len(counts) |-> counts[f] - 2])

\* a flattened pentagon and quad whose corners refer to the points in
\* reverse
C11_Witness ==
    /\ meshOut.done
    /\ meshOut.should_flatten
    /\ meshIn.counts = <<5, 4>>
    /\ meshIn.indices[1] = 4
    /\ Len(meshOut.triangles) = 5

\* the mesh has two face subsets, disjoint and together holding every face
SplitsFaces(m) ==
    /\ Len(m.subsets) = 2
    /\ \A i \in 1..2 : m.subsets[i].elementType = "face"
    /\ LET faces(i) == {m.subsets[i].indices[j] :
                           j \in 1..Len(m.subsets[i].indices)}
       IN  /\ faces(1) \cap faces(2) = {}
           /\ faces(1) \cup faces(2) = 0..(Len(m.counts) - 1)

\* the triangle-list positions logged at a path
PositionsLoggedAt(path) ==
    UNION {{meshOut.logged[e].positions[i] :
               i \in 1..Len(meshOut.logged[e].positions)} :
           e \in {x \in 1..Len(meshOut.logged) : meshOut.logged[x].path = path}}

\* C12: for a mesh with two face subsets that are disjoint and together
\* cover all faces, the triangle lists logged for the two subsets take
\* disjoint sets of positions of the mesh's triangle list, every logged
\* triangle is the one at its position, and together they are the whole
\* triangle list, each triangle once.
C12_SubsetSlices ==
    (meshOut.done /\ SplitsFaces(meshIn)) =>
        LET a == PositionsLoggedAt(meshIn.subsets[1].path)
            b == PositionsLoggedAt(meshIn.subsets[2].path)
        IN  /\ a \cap b = {}
            /\ a \cup b = 0..(Len(meshOut.triangles) - 1)
            /\ \A e \in 1..Len(meshOut.logged) :
                  LET d == meshOut.logged[e]
                  IN  /\ Len(d.triangles) = Len(d.positions)
                      /\ \A i \in 1..Len(d.positions) :
                            d.triangles[i] = meshOut.triangles[d.positions[i] + 1]
            /\ Sum([e \in 1..Len(meshOut.logged) |->
                       Len(meshOut.logged[e].triangles)])
                 = Len(meshOut.triangles)

\* a quad in one subset and a pentagon in the other, both logged
C12_Witness ==
    /\ meshOut.done
    /\ SplitsFaces(meshIn)
    /\ meshIn.counts = <<4, 5>>
    /\ Len(meshOut.logged) = 2
    /\ Len(meshOut.logged[1].triangles) = 2
    /\ Len(meshOut.logged[2].triangles) = 3

\* the single quad of the two scenarios
IsQuad(m) ==
    /\ m.counts = <<4>>
    /\ m.indices = <<0, 1, 2, 3>>
    /\ m.nv = 4

\* C13: a mesh with one quad face (counts = [4], indices = [0, 1, 2, 3],
\* 4 vertices), vertex-interpolated UVs and no face-varying normals takes
\* the shared-vertex path and yields triangles == [[0, 1, 2], [0, 2, 3]]
\* and face_to_triangles == [[0, 1]], with the vertex buffer unchanged.
C13_QuadShared ==
    (meshOut.done /\ IsQuad(meshIn) /\ meshIn.st = "vertex"
        /\ meshIn.texcoords = 4 /\ meshIn.normals # "faceVarying") =>
        /\ ~meshOut.should_flatten
        /\ meshOut.triangles = << <<0, 1, 2>>, <<0, 2, 3>> >>
        /\ meshOut.face_to_triangle_indices = << <<0, 1>> >>
        /\ meshOut.vertices = <<0, 1, 2, 3>>

C13_Witness ==
    /\ meshOut.done /\ IsQuad(meshIn)
    /\ meshIn.st = "vertex" /\ meshIn.texcoords = 4
    /\ meshIn.normals = "none"
    /\ ~meshOut.should_flatten

\* C14: the same single quad with face-varying UVs of length 4 takes the
\* flattening path: the vertex buffer logged is the per-corner duplicate, of
\* length 4, and triangles == [[0, 1, 2], [0, 2, 3]] index that buffer.
C14_QuadFlattened ==
    (meshOut.done /\ IsQuad(meshIn) /\ meshIn.st = "faceVarying"
        /\ meshIn.texcoords = 4) =>
        /\ meshOut.should_flatten
        /\ Len(meshOut.vertices) = 4
        /\ meshOut.vertices = [i \in 1..4 |-> meshIn.indices[i]]
        /\ meshOut.triangles = << <<0, 1, 2>>, <<0, 2, 3>> >>
        /\ \A e \in 1..Len(meshOut.logged) :
              meshOut.logged[e].vertices = meshOut.vertices

C14_Witness ==
    /\ meshOut.done /\ IsQuad(meshIn)
    /\ meshIn.st = "faceVarying" /\ meshIn.texcoords = 4
    /\ meshIn.normals = "none"
    /\ meshOut.should_flatten
    /\ Len(meshOut.logged) = 1

(***************************************************************************)
(* LogRerun (src/usd_rerun_logger/env_logger.py): the gymnasium wrapper    *)
(* that starts, feeds and stops recordings on reset() and step().          *)
(***************************************************************************)
\* episodes and steps of one run, and the recording_length values tried
MaxEpisodes == 3
MaxSteps == 4
MaxLength == 2

\* the trigger functions the wrapper is constructed with
EpisodeTriggerArgs == {"None", "never", "even"}
StepTriggerArgs    == {"None", "never", "first", "every_other"}

\* gymnasium.utils.save_video.capped_cubic_video_schedule
capped_cubic_video_schedule(episode) ==
    IF episode < 1000
    THEN \E r \in 0..episode : r * r * r = episode
    ELSE episode % 1000 = 0

\* calling a trigger function
Trigger(f, n) ==
    CASE f = "never"       -> FALSE
      [] f = "even"        -> n % 2 = 0
      [] f = "first"       -> n = 0
      [] f = "every_other" -> n % 2 = 0
      [] f = "capped_cubic_video_schedule" -> capped_cubic_video_schedule(n)
      [] OTHER -> FALSE

\* "self.episode_trigger and self.episode_trigger(self.episode_id)"
Fires(f, n) == f # "None" /\ Trigger(f, n)

\* a step recording named after the episode series
StepRecording_as_episode(step) == "episode_" \o ToString(step)

\* f"episode_{self.episode_id}", f"step_{self.step_id}"
EpisodeRecording(episode) == "episode_" \o ToString(episode)
StepRecording(step) == "step_" \o ToString(step)

\* a call on self.logger.recording_stream, or self.logger.log_scene();
\* a duration is kept as the number of physics_dt it stands for
StreamCall(fn, timeline, arg, value) ==
    [fn |-> fn, timeline |-> timeline, arg |-> arg, value |-> value]

LogSceneCall == StreamCall("log_scene", "None", "none", 0)

\* The wrapper's recording state while an operation runs:
\* [timeline_name, recorded_frames, calls]
start_recording(w, name) ==
    [w EXCEPT !.timeline_name = name,
              !.calls = @ \o <<StreamCall("reset_time", "None", "none", 0),
                               StreamCall("set_time", name, "timestamp", 0)>>]

\* a stop_recording that leaves the frame counter as it is
stop_recording_keeping_count(w) ==
    [w EXCEPT !.timeline_name = "None",
              !.calls = Append(@, StreamCall("flush", "None", "none", 0))]

\* stop_recording
stop_recording(w) ==
    [w EXCEPT !.timeline_name = "None",
              !.recorded_frames = 0,
              !.calls = Append(@, StreamCall("flush", "None", "none", 0))]

\* a capture without the "if self._timeline_name is None: return" guard
capture_frame_unguarded(w) ==
    [w EXCEPT !.calls = @ \o <<StreamCall("set_time", w.timeline_name,
                                          "duration", w.recorded_frames),
                               LogSceneCall>>,
              !.recorded_frames = @ + 1]

\* _capture_frame
capture_frame(w) ==
    IF w.timeline_name = "None" THEN w
    ELSE [w EXCEPT !.calls = @ \o <<StreamCall("set_time", w.timeline_name,
                                               "duration", w.recorded_frames),
                                    LogSceneCall>>,
                   !.recorded_frames = @ + 1]

\* a reset that never stops the recording
reset_stop_never(w) == w

\* reset: "if self.recording_length == float('inf'): self.stop_recording()"
reset_stop(w) ==
    IF recording_length.inf THEN stop_recording(w) ELSE w

\* a length test written with >=
over_length_inclusive(frames) ==
    ~recording_length.inf /\ frames >= recording_length.n

\* step: "if self._recorded_frames > self.recording_length"
over_length(frames) ==
    ~recording_length.inf /\ frames > recording_length.n

\* history: the recording rec ends, if there is one
Ended(fin, rec, why, at) ==
    IF rec.name = "None" THEN fin
    ELSE Append(fin, [name |-> rec.name, frames |-> rec.frames,
                      end |-> why, at_step |-> at, step |-> rec.step,
                      clean |-> rec.clean, resets |-> rec.resets])

\* history: the names the calls of an operation started recordings under
RECURSIVE StartedIn(_)
StartedIn(cs) ==
    IF cs = <<>> THEN <<>>
    ELSE IF Head(cs).fn = "set_time" /\ Head(cs).arg = "timestamp"
         THEN <<Head(cs).timeline>> \o StartedIn(Tail(cs))
         ELSE StartedIn(Tail(cs))

\* history: the scene logs among the calls of an operation
Captures(cs) == Cardinality({i \in 1..Len(cs) : cs[i].fn = "log_scene"})

reset ==
    /\ ~closed
    /\ episode_id + 1 < MaxEpisodes
    /\ LET e  == episode_id + 1
           w0 == [timeline_name |-> timeline_name,
                  recorded_frames |-> recorded_frames, calls |-> <<>>]
           w1 == reset_stop(w0)
           fires == Fires(episode_trigger, e)
           w2 == IF fires THEN start_recording(w1, EpisodeRecording(e)) ELSE w1
           w3 == capture_frame(w2)
           \* history
           stopped == w0.timeline_name # "None" /\ w1.timeline_name = "None"
           fin1 == IF stopped THEN Ended(finished, recNow, "reset", step_id)
                   ELSE finished
           rec1 == IF stopped THEN NoRecording
                   ELSE IF recNow.name = "None" THEN recNow
                   ELSE [recNow EXCEPT !.resets = @ + 1]
           fin2 == IF fires THEN Ended(fin1, rec1, "replaced", step_id) ELSE fin1
           rec2 == IF fires
                   THEN [name |-> w2.timeline_name, frames |-> 0,
                         episode |-> e, step |-> step_id,
                         clean |-> rec1.name = "None", resets |-> 0]
                   ELSE rec1
       IN  /\ episode_id' = e
           /\ timeline_name' = w3.timeline_name
           /\ recorded_frames' = w3.recorded_frames
           /\ calls' = w3.calls
           /\ finished' = fin2
           /\ recNow' = [rec2 EXCEPT !.frames = @ + Captures(w3.calls)]
           /\ started' = started \o StartedIn(w3.calls)
           /\ firings' = firings + (IF fires THEN 1 ELSE 0)
           /\ stepFired' = FALSE
    /\ op' = "reset"
    /\ UNCHANGED <<wrapperArgs, episode_trigger, step_trigger,
                   recording_length, step_id, closed>>
    /\ UNCHANGED <<world, logger, ret, out, hist, lastOp, util, flat, aux>>

step ==
    /\ ~closed
    /\ episode_id >= 0
    /\ step_id + 1 < MaxSteps
    /\ LET st == step_id + 1
           w0 == [timeline_name |-> timeline_name,
                  recorded_frames |-> recorded_frames, calls |-> <<>>]
           fires == Fires(step_trigger, st)
           w1 == IF fires THEN start_recording(w0, StepRecording(st)) ELSE w0
           w2 == capture_frame(w1)
           over == over_length(w2.recorded_frames)
           w3 == IF over THEN stop_recording(w2) ELSE w2
           \* history
           fin1 == IF fires THEN Ended(finished, recNow, "replaced", st)
                   ELSE finished
           rec1 == IF fires
                   THEN [name |-> w1.timeline_name, frames |-> 0,
                         episode |-> episode_id, step |-> st,
                         clean |-> recNow.name = "None", resets |-> 0]
                   ELSE recNow
           rec2 == [rec1 EXCEPT !.frames = @ + Captures(w3.calls)]
       IN  /\ step_id' = st
           /\ timeline_name' = w3.timeline_name
           /\ recorded_frames' = w3.recorded_frames
           /\ calls' = w3.calls
           /\ finished' = IF over THEN Ended(fin1, rec2, "length", st) ELSE fin1
           /\ recNow' = IF over THEN NoRecording ELSE rec2
           /\ started' = started \o StartedIn(w3.calls)
           /\ firings' = firings + (IF fires THEN 1 ELSE 0)
           /\ stepFired' = (stepFired \/ fires)
    /\ op' = "step"
    /\ UNCHANGED <<wrapperArgs, episode_trigger, step_trigger,
                   recording_length, episode_id, closed>>
    /\ UNCHANGED <<world, logger, ret, out, hist, lastOp, util, flat, aux>>

close ==
    /\ ~closed
    /\ LET w0 == [timeline_name |-> timeline_name,
                  recorded_frames |-> recorded_frames, calls |-> <<>>]
           w1 == stop_recording(w0)
       IN  /\ timeline_name' = w1.timeline_name
           /\ recorded_frames' = w1.recorded_frames
           /\ calls' = w1.calls
           /\ finished' = Ended(finished, recNow, "close", step_id)
           /\ recNow' = NoRecording
    /\ closed' = TRUE
    /\ op' = "close"
    /\ UNCHANGED <<wrapperArgs, episode_trigger, step_trigger,
                   recording_length, step_id, episode_id, started, firings,
                   stepFired>>
    /\ UNCHANGED <<world, logger, ret, out, hist, lastOp, util, flat, aux>>

\* LogRerun.__init__ for the triggers and the recording_length passed
InitWrapper ==
    /\ stagePrims = Paths
    /\ xf = [p \in Paths |-> 0]
    /\ pose = [b \in Bodies |-> 0]
    /\ material = NoMaterials
    /\ stage = "None"
    /\ logger_id = "None"
    /\ path_filter = NoFilter
    /\ logged_meshes = {}
    /\ last_usd_transforms = EmptyDict
    /\ use_physx_transforms = "False"
    /\ last_physx_transforms = EmptyDict
    /\ isaac_lab_scene = "None"
    /\ last_isaac_lab_transforms = EmptyDict
    /\ op = "construct" /\ ret = "none" /\ out = <<>>
    /\ seen = {} /\ geomLog = NoHistory /\ lastVisible = {}
    /\ lastOp = "construct"
    /\ UtilIdle
    /\ AuxIdle
    /\ FlatIdle
    /\ wrapperArgs \in [episode_trigger : EpisodeTriggerArgs,
                        step_trigger : StepTriggerArgs,
                        recording_length : 0..MaxLength]
    /\ episode_trigger =
         (IF wrapperArgs.episode_trigger = "None"
             /\ wrapperArgs.step_trigger = "None"
          THEN "capped_cubic_video_schedule"
          ELSE wrapperArgs.episode_trigger)
    /\ step_trigger = wrapperArgs.step_trigger
    /\ recording_length =
         (IF wrapperArgs.recording_length # 0
          THEN [inf |-> FALSE, n |-> wrapperArgs.recording_length]
          ELSE [inf |-> TRUE, n |-> 0])
    /\ WrapperFresh

NextWrapper ==
    \/ reset
    \/ step
    \/ close

SpecWrapper == InitWrapper /\ [][NextWrapper]_vars

(***************************************************************************)
(* Properties of LogRerun                                                  *)
(***************************************************************************)
\* the episode trigger was true at the reset that opened this episode
EpisodeTriggered == episode_id >= 0 /\ Fires(episode_trigger, episode_id)

\* the last operation ended with a captured frame: set_time then log_scene
FrameCaptured ==
    /\ Len(calls) >= 2
    /\ calls[Len(calls) - 1].fn = "set_time"
    /\ calls[Len(calls) - 1].arg = "duration"
    /\ calls[Len(calls)] = LogSceneCall

\* C15: with recording_length 0, a reset or a step of an episode whose
\* reset did not fire the episode trigger, and in which no step trigger has
\* fired, makes no set_time call and no scene log; a reset or a step of an
\* episode whose reset fired the episode trigger captures a frame, a
\* set_time followed by a scene log.
C15_CapturesOnlyInTriggeredEpisodes ==
    (recording_length.inf /\ op \in {"reset", "step"}) =>
        /\ (~EpisodeTriggered /\ ~stepFired) =>
              \A i \in 1..Len(calls) : calls[i].fn \notin {"set_time", "log_scene"}
        /\ EpisodeTriggered => FrameCaptured

C15_Witness ==
    /\ recording_length.inf
    /\ wrapperArgs.episode_trigger = "even"
    /\ episode_id = 2
    /\ op = "step"
    /\ FrameCaptured
    /\ calls[1].timeline = "episode_2"

\* the name "<series>_<n>" the tests look recordings up by
RecordingNamed(series, n) == series \o "_" \o ToString(n)

\* the recordings due after resets 0..e and steps 0..s under triggers et, st
RecordingsDue(et, e, st, s) ==
    {RecordingNamed("episode", i) : i \in {j \in 0..e : Fires(et, j)}}
        \cup {RecordingNamed("step", i) : i \in {j \in 0..s : Fires(st, j)}}

\* C16: a reset starts the recording episode_<e> exactly when
\* episode_trigger(e) is true and a step starts step_<s> exactly when
\* step_trigger(s) is true, e counting the resets from 0 and s the steps
\* from 0 across all episodes, no reset touching it; the recordings started
\* are pairwise distinct and as many as the trigger firings; constructed
\* with neither trigger, the wrapper starts episode recordings on the
\* default schedule (episodes 0, 1, 8, 27, ...).
C16_RecordingsFollowTriggers ==
    [][ /\ op' = "reset" =>
              /\ episode_id' = episode_id + 1
              /\ step_id' = step_id
              /\ started' =
                   IF episode_trigger # "None" /\ Trigger(episode_trigger, episode_id')
                   THEN Append(started, RecordingNamed("episode", episode_id'))
                   ELSE started
        /\ op' = "step" =>
              /\ step_id' = step_id + 1
              /\ episode_id' = episode_id
              /\ started' =
                   IF step_trigger # "None" /\ Trigger(step_trigger, step_id')
                   THEN Append(started, RecordingNamed("step", step_id'))
                   ELSE started
        /\ Cardinality({started'[i] : i \in 1..Len(started')}) = Len(started')
        /\ Len(started') = firings'
        /\ {started'[i] : i \in 1..Len(started')}
              = RecordingsDue(episode_trigger, episode_id', step_trigger, step_id')
        /\ (wrapperArgs.episode_trigger = "None" /\ wrapperArgs.step_trigger = "None") =>
              {started'[i] : i \in 1..Len(started')}
                 = {RecordingNamed("episode", e) :
                      e \in {r * r * r : r \in 0..MaxEpisodes} \cap 0..episode_id'}
      ]_vars

C16_Witness ==
    /\ wrapperArgs.episode_trigger = "even"
    /\ wrapperArgs.step_trigger = "every_other"
    /\ firings = 4
    /\ started = <<"episode_0", "step_0", "step_2", "episode_2">>

\* the recording the last captured frame went to: the active one, or the
\* one the operation stopped after capturing
LastFed == IF recNow.name # "None" THEN recNow ELSE finished[Len(finished)]

\* C17: frame k of the recording R sets two timelines, in this order,
\* before the scene is logged: R_timestamp with the duration k * physics_dt
\* and then R_step with the sequence k.
C17_TwoTimelinesPerFrame ==
    \A i \in 1..Len(calls) :
        calls[i] = LogSceneCall =>
            /\ i >= 3
            /\ calls[i - 2] = StreamCall("set_time", LastFed.name \o "_timestamp",
                                         "duration", LastFed.frames - 1)
            /\ calls[i - 1] = StreamCall("set_time", LastFed.name \o "_step",
                                         "sequence", LastFed.frames - 1)

\* a recording the step trigger started at step rec.step
StepStarted(rec) == rec.name = RecordingNamed("step", rec.step)

\* the recording a reset or a step feeds: the one its trigger starts, else
\* the one that was active
FedBy(trigger, series, n) ==
    IF trigger # "None" /\ Trigger(trigger, n)
    THEN RecordingNamed(series, n) ELSE timeline_name

C19_ExactlyLFrames ==
    ~recording_length.inf =>
        /\ \A i \in 1..Len(finished) :
              finished[i].end = "length"
                 => finished[i].frames = recording_length.n
        /\ recNow.frames <= recording_length.n

\* C20: with recording_length 0 a reset stops the active recording (the
\* flush) before it consults the episode trigger (before any reset_time),
\* and after every operation the active recording is one that was started
\* in the current episode;
\* with recording_length > 0 a reset makes no stop, and a recording its
\* trigger does not replace stays the active one.
C20_ResetStopsOnlyWholeEpisodes ==
    [][ /\ (recording_length.inf /\ recNow'.name # "None")
              => recNow'.episode = episode_id'
        /\ op' = "reset" =>
          /\ recording_length.inf =>
                /\ calls' # <<>>
                /\ calls'[1].fn = "flush"
                /\ \A i \in 2..Len(calls') : calls'[i].fn # "flush"
                /\ timeline_name' \in {"None", RecordingNamed("episode", episode_id')}
                /\ recNow'.name # "None" => recNow'.episode = episode_id'
          /\ ~recording_length.inf =>
                /\ \A i \in 1..Len(calls') : calls'[i].fn # "flush"
                /\ ~(episode_trigger # "None" /\ Trigger(episode_trigger, episode_id'))
                      => /\ timeline_name' = timeline_name
                         /\ recNow'.episode = recNow.episode
      ]_vars

C20_Witness ==
    /\ ~recording_length.inf
    /\ op = "reset"
    /\ recNow.name # "None"
    /\ recNow.episode < episode_id
    /\ recNow.resets >= 1

\* C21: when an operation starts a recording while another is active, it
\* stops the active one first (a flush before the reset_time), and the
\* frame captured right after the start is frame 0, at duration 0.
C21_StartStopsCurrent ==
    \A i \in 1..Len(calls) :
        (calls[i].fn = "set_time" /\ calls[i].arg = "timestamp") =>
            /\ ~LastFed.clean => \E j \in 1..(i - 1) : calls[j].fn = "flush"
            /\ i < Len(calls) =>
                  calls[i + 1] = StreamCall("set_time", calls[i].timeline,
                                            "duration", 0)

(***************************************************************************)
(* log_stage over stages whose meshes are bound to materials               *)
(***************************************************************************)
\* a constructed logger and a stage with some material on the mesh and on
\* the face subset
InitMaterials ==
    /\ stagePrims = Paths
    /\ xf = [p \in Paths |-> 0]
    /\ pose = [b \in Bodies |-> 0]
    /\ material \in [MaterialPrims -> MaterialKinds]
    /\ stage = "None"
    /\ logger_id = "None"
    /\ path_filter = NoFilter
    /\ logged_meshes = {}
    /\ last_usd_transforms = EmptyDict
    /\ use_physx_transforms = "False"
    /\ last_physx_transforms = EmptyDict
    /\ isaac_lab_scene = "None"
    /\ last_isaac_lab_transforms = EmptyDict
    /\ op = "construct" /\ ret = "none" /\ out = <<>>
    /\ seen = {} /\ geomLog = NoHistory /\ lastVisible = {}
    /\ lastOp = "construct"
    /\ UtilIdle
    /\ AuxIdle
    /\ FlatIdle
    /\ WrapIdle

NextMaterials ==
    \/ initialize(NoFilter, "None")
    \/ log_stage
    \/ clear_logged_meshes
    \/ \E p \in Paths : DefinePrim(p)
    \/ \E p \in Paths : RemovePrim(p)
    \/ \E p \in Paths, v \in XfValues : SetLocalTransform(p, v)

SpecMaterials == InitMaterials /\ [][NextMaterials]_vars

\* the prims a traversal of the stage has to process
Visible ==
    {p \in stagePrims : PrimInfo(p).purpose # "guide" /\ PassesFilter(p, path_filter)}

\* C22: a log_stage on an initialized logger returns normally and has
\* processed every visible node, whatever the processing of one node did.
C22_NoNodeAbortsTraversal ==
    (op = "log_stage" /\ ret # "warning") =>
        /\ ret = "ok"
        /\ lastVisible = Visible

\* the flatten rule as the claim words it
FlattenRule(m) ==
    \/ m.st = "faceVarying"
    \/ m.normals = "faceVarying"
    \/ (m.st # "none" /\ m.texcoords = Len(m.indices) /\ m.texcoords # m.nv)

\* the values face_vertex_indices holds
IndexValues(m) == {m.indices[i] : i \in 1..Len(m.indices)}

\* C23: _log_mesh takes the flattened path, where the vertex buffer holds
\* one vertex per face corner, exactly when the texcoord interpolation is
\* faceVarying, or the normals interpolation is faceVarying, or texcoords
\* exist with a length equal to len(face_vertex_indices) and different from
\* len(vertices); otherwise the vertex buffer is the one read and the
\* triangles hold values of face_vertex_indices.
C23_FlattenDecision ==
    (meshOut.done /\ meshIn.faceData = "values") =>
        /\ meshOut.should_flatten <=> FlattenRule(meshIn)
        /\ FlattenRule(meshIn) =>
              meshOut.vertices = [i \in 1..Len(meshIn.indices) |-> meshIn.indices[i]]
        /\ ~FlattenRule(meshIn) =>
              /\ meshOut.vertices = [i \in 1..meshIn.nv |-> i - 1]
              /\ \A t \in 1..Len(meshOut.triangles), c \in 1..3 :
                    meshOut.triangles[t][c] \in IndexValues(meshIn)

\* the length fallback decides: texcoords tagged vertex, one per corner
C23_Witness ==
    /\ meshOut.done
    /\ meshIn.st = "vertex" /\ meshIn.normals = "vertex"
    /\ meshIn.counts = <<3, 3>>
    /\ meshIn.nv = 3 /\ meshIn.texcoords = 6
    /\ meshOut.should_flatten
    /\ Len(meshOut.vertices) = 6

\* the triples of a face of size count whose corners start at idx
FanOf(count, idx) == [i \in 1..(count - 2) |-> <<idx, idx + i, idx + i + 1>>]

\* all faces' triples, idx advanced by count after every face
RECURSIVE FansFrom(_, _)
FansFrom(counts, idx) ==
    IF counts = <<>> THEN <<>>
    ELSE FanOf(Head(counts), idx) \o FansFrom(Tail(counts), idx + Head(counts))

\* C24: the flattened loop emits, face after face, the triples
\* (idx, idx+i, idx+i+1) for i = 1..count-2, idx being the face's corner
\* offset; the shared loop emits the same triples read through
\* face_vertex_indices; so on one input the shared triangle list is the
\* flattened one mapped element-wise through face_vertex_indices, and the
\* two loops build the same face_to_triangle_indices.  The path taken
\* logs its own list.
C24_SharedIsFlattenedMapped ==
    (meshOut.done /\ meshIn.faceData = "values") =>
        LET f == triangulation(meshIn, TRUE)
            sh == triangulation(meshIn, FALSE)
        IN  /\ f.triangles = FansFrom(meshIn.counts, 0)
            /\ sh.triangles =
                  [t \in 1..Len(f.triangles) |->
                      [c \in 1..3 |-> meshIn.indices[f.triangles[t][c] + 1]]]
            /\ sh.face_to_triangle_indices = f.face_to_triangle_indices
            /\ meshOut.triangles =
                  IF meshOut.should_flatten THEN f.triangles ELSE sh.triangles
            /\ meshOut.face_to_triangle_indices = f.face_to_triangle_indices

\* a quad and a pentagon over shared points, wound backwards
C24_Witness ==
    /\ meshOut.done
    /\ ~meshOut.should_flatten
    /\ meshIn.counts = <<4, 5>>
    /\ meshIn.indices = <<4, 3, 2, 1, 0, 4, 3, 2, 1>>
    /\ meshOut.triangles[2] = <<4, 2, 1>>
    /\ meshOut.triangles[5] = <<0, 2, 1>>

\* an attribute of n values as the claim has the flattener hand it on:
\* corner-aligned values unchanged, vertex values read through
\* face_vertex_indices, anything else unchanged
FlattenedAs(n, interpolation, cornerAligned, face_vertex_indices) ==
    IF cornerAligned THEN [i \in 1..n |-> i - 1]
    ELSE IF interpolation = "vertex"
    THEN [i \in 1..Len(face_vertex_indices) |-> face_vertex_indices[i]]
    ELSE [i \in 1..n |-> i - 1]

\* the texcoords are one per corner by the test of the length fallback
FallbackDetects(m) ==
    m.st # "none" /\ m.texcoords = Len(m.indices) /\ m.texcoords # m.nv

\* C25: when the flattener duplicates vertices, normals and texcoords
\* tagged vertex are re-indexed through face_vertex_indices, those that are
\* corner-aligned (tagged faceVarying, or texcoords the length fallback
\* detects, whatever their tag) are passed through unchanged, and constant
\* and uniform ones are not expanded.
C25_AttributesFlattened ==
    (meshOut.done /\ meshOut.should_flatten) =>
        /\ meshOut.normals =
              FlattenedAs(meshIn.normals_len, meshIn.normals,
                          meshIn.normals = "faceVarying", meshIn.indices)
        /\ meshOut.texcoords =
              FlattenedAs(meshIn.texcoords, meshIn.st,
                          meshIn.st = "faceVarying" \/ FallbackDetects(meshIn),
                          meshIn.indices)

\* _log_mesh has run on a mesh whose face attributes hold no face
ZeroFaces == meshOut.done /\ meshIn.faceData = "values" /\ meshIn.counts = <<>>

\* C26 as stated: for a mesh with zero faces the triangle list is empty and
\* the vertex buffer is the one read, whichever path the decision rule
\* selects.
C26_Original ==
    ZeroFaces =>
        /\ meshOut.triangles = <<>>
        /\ meshOut.vertices = [i \in 1..meshIn.nv |-> i - 1]

\* C26: for a mesh with zero faces the triangle list is empty on both
\* paths; on the shared path the vertex buffer is the one read, and on the
\* flattened path it is the per-corner buffer, which holds no vertex.
C26_ZeroFaces ==
    ZeroFaces =>
        /\ meshOut.triangles = <<>>
        /\ meshOut.face_to_triangle_indices = <<>>
        /\ ~meshOut.should_flatten =>
              meshOut.vertices = [i \in 1..meshIn.nv |-> i - 1]
        /\ meshOut.should_flatten => meshOut.vertices = <<>>

\* a mesh of points without faces whose normals are tagged faceVarying
C26_Witness ==
    /\ ZeroFaces
    /\ meshIn.nv = LoosePoints
    /\ meshIn.normals = "faceVarying"
    /\ meshOut.should_flatten
    /\ meshOut.vertices = <<>>
    /\ meshOut.logged # <<>>

\* C27: a mesh whose face-vertex-index or face-vertex-count data is
\* missing is emitted once as a static point cloud of its positions, with
\* no triangle mesh and no subset entity, and _log_mesh raises nothing.
C27_PointCloudWithoutFaces ==
    (meshOut.done /\ meshIn.faceData # "values") =>
        /\ ~meshOut.raised
        /\ meshOut.logged =
              <<PointsData("/World/Mesh", [i \in 1..meshIn.nv |-> i - 1])>>

FaceRead(f, F, wraps) ==
    IF f >= 0 /\ f < F THEN <<f>>
    ELSE IF wraps /\ f < 0 /\ f >= -F THEN <<F + f>>
    ELSE <<>>

\* the triangle-list positions of the faces the indices read, in the
\* order the indices are listed and within a face in the order of
\* face_to_triangle_indices
RECURSIVE GatheredAt(_, _, _)
GatheredAt(indices, face_to_triangle_indices, wraps) ==
    IF indices = <<>> THEN <<>>
    ELSE LET read == FaceRead(Head(indices), Len(face_to_triangle_indices), wraps)
         IN  (IF read = <<>> THEN <<>>
              ELSE face_to_triangle_indices[read[1] + 1])
             \o GatheredAt(Tail(indices), face_to_triangle_indices, wraps)

\* the triangles at the given positions of the triangle list
TrianglesAt(triangles, at) == [i \in 1..Len(at) |-> triangles[at[i] + 1]]

\* one Mesh3D per face subset that gathers a triangle, in declaration
\* order
RECURSIVE ExpectedSubsets(_, _, _, _, _)
ExpectedSubsets(subsets, vertices, triangles, face_to_triangle_indices, wraps) ==
    IF subsets = <<>> THEN <<>>
    ELSE LET subset == Head(subsets)
             at == GatheredAt(subset.indices, face_to_triangle_indices, wraps)
         IN  (IF subset.elementType = "face" /\ at # <<>>
              THEN <<[kind |-> "Mesh3D", path |-> subset.path,
                      vertices |-> vertices,
                      triangles |-> TrianglesAt(triangles, at),
                      positions |-> at]>>
              ELSE <<>>)
             \o ExpectedSubsets(Tail(subsets), vertices, triangles,
                                face_to_triangle_indices, wraps)

\* _log_mesh has run on a mesh with face data and subsets
SubsetsLogged ==
    meshOut.done /\ meshIn.faceData = "values" /\ Len(meshIn.subsets) > 0

\* C29: a subset face index outside 0..F-1, too large or negative,
\* contributes no triangle to the subset and raises nothing; the in-range
\* indices of the same subset are still used.
C29_OutOfRangeIgnored ==
    SubsetsLogged =>
        /\ ~meshOut.raised
        /\ meshOut.logged =
              ExpectedSubsets(meshIn.subsets, meshOut.vertices,
                              meshOut.triangles,
                              meshOut.face_to_triangle_indices, FALSE)

\* C30: the subsets are emitted in declaration order, each with the
\* triangles of the faces its indices read, gathered in the order the
\* indices are listed and within a face in face_to_triangle_indices order;
\* a subset whose element type is not face, or whose index list is empty,
\* emits nothing and changes nothing of what the others emit.  When the
\* gathering of a subset raises, what was emitted before it is the start
\* of that sequence.
C30_SubsetsInDeclarationOrder ==
    SubsetsLogged =>
        LET expected == ExpectedSubsets(meshIn.subsets, meshOut.vertices,
                                        meshOut.triangles,
                                        meshOut.face_to_triangle_indices, TRUE)
        IN  IF meshOut.raised
            THEN /\ Len(meshOut.logged) < Len(meshIn.subsets)
                 /\ Len(meshOut.logged) <= Len(expected)
                 /\ meshOut.logged = SubSeq(expected, 1, Len(meshOut.logged))
            ELSE meshOut.logged = expected

\* an edge subset declared before a face subset that lists the faces of a
\* quad and a pentagon from the last to the first
C30_Witness ==
    /\ SubsetsLogged
    /\ ~meshOut.raised
    /\ ~meshOut.should_flatten
    /\ meshIn.counts = <<4, 5>>
    /\ meshIn.subsets[1].elementType = "edge"
    /\ meshIn.subsets[2].indices = <<1, 0>>
    /\ Len(meshOut.logged) = 1
    /\ meshOut.logged[1].path = meshIn.subsets[2].path
    /\ meshOut.logged[1].positions = <<2, 3, 4, 0, 1>>

\* the paths of the mesh's subsets
SubsetPaths(m) == {m.subsets[i].path : i \in 1..Len(m.subsets)}

\* the triangle-list positions of the faces that the subsets logged at
\* some path list
PositionsOfLoggedSubsets ==
    UNION {{GatheredAt(meshIn.subsets[i].indices,
                       meshOut.face_to_triangle_indices, TRUE)[j] :
               j \in 1..Len(GatheredAt(meshIn.subsets[i].indices,
                                       meshOut.face_to_triangle_indices, TRUE))} :
           i \in {k \in 1..Len(meshIn.subsets) :
                     \E e \in 1..Len(meshOut.logged) :
                         meshOut.logged[e].path = meshIn.subsets[k].path}}

\* C31: a mesh with no subsets is emitted as a single mesh entity at its
\* own path that holds every triangle of the triangle list; a mesh with at
\* least one subset emits entities at subset paths only, one per emitted
\* subset, and none at the mesh's own path, so the triangles of faces that
\* belong to no emitted subset are in no entity.
C31_WholeMeshOrSubsets ==
    (meshOut.done /\ meshIn.faceData = "values") =>
        IF Len(meshIn.subsets) = 0
        THEN /\ Len(meshOut.logged) = 1
             /\ meshOut.logged[1].kind = "Mesh3D"
             /\ meshOut.logged[1].path = "/World/Mesh"
             /\ meshOut.logged[1].triangles = meshOut.triangles
        ELSE /\ \A e \in 1..Len(meshOut.logged) :
                   /\ meshOut.logged[e].path # "/World/Mesh"
                   /\ meshOut.logged[e].path \in SubsetPaths(meshIn)
                   /\ \A d \in 1..Len(meshOut.logged) :
                         meshOut.logged[d].path = meshOut.logged[e].path => d = e
             /\ \A e \in 1..Len(meshOut.logged) :
                   \A j \in 1..Len(meshOut.logged[e].positions) :
                       meshOut.logged[e].positions[j] \in PositionsOfLoggedSubsets

\* a quad and a pentagon with one subset that holds the quad: the three
\* triangles of the pentagon are in no entity
C31_Witness ==
    /\ meshOut.done /\ ~meshOut.raised
    /\ meshIn.counts = <<4, 5>>
    /\ Len(meshIn.subsets) = 1
    /\ Len(meshOut.triangles) = 5
    /\ Len(meshOut.logged) = 1
    /\ meshOut.logged[1].path = "/World/Mesh/a"
    /\ meshOut.logged[1].positions = <<0, 1>>

\* the node is a guide, or patterns are configured and its path matches
\* none of them
Excluded(p) ==
    \/ PrimInfo(p).purpose = "guide"
    \/ /\ path_filter.kind = "list"
       /\ \A i \in 1..Len(path_filter.patterns) :
             ~fnmatch(p, path_filter.patterns[i])

\* the path has an entry in one of the last-transform memos
Memoized(p) ==
    p \in DOMAIN last_usd_transforms \cup DOMAIN last_physx_transforms
             \cup DOMAIN last_isaac_lab_transforms

\* C32: a log_stage that returns emits no transform and no geometry for a
\* node whose purpose is guide or whose path matches none of the configured
\* patterns, and a memo entry such a node holds from an earlier traversal is
\* cleared: one clear instruction, the entry deleted.  The stored filter is
\* never a bare string, and without a filter the visible set is every
\* non-guide node on the stage.
C32_ExcludedNodes ==
    [][ (op' = "log_stage" /\ ret' = "ok") =>
          /\ path_filter.kind # "str"
          /\ path_filter.kind = "none" =>
                lastVisible' = {p \in stagePrims : PrimInfo(p).purpose # "guide"}
          /\ \A p \in Paths :
                Excluded(p) =>
                  /\ p \notin lastVisible'
                  /\ CountAt(out', "Transform3D", p) = 0
                  /\ SelectEntries(out', GeometryKinds, p) = <<>>
                  /\ Memoized(p) =>
                        /\ CountAt(out', "Clear", p) = 1
                        /\ ~Memoized(p)'
      ]_vars

\* the nodes a traversal has processed before the node p
VisitedBefore(p, visited) ==
    {q \in visited :
        \E i, j \in 1..Len(TraversalOrder) :
            i < j /\ TraversalOrder[i] = q /\ TraversalOrder[j] = p}

\* C33: when log_stage raises while it processes a node, what the call did
\* before stands: every memo entry and logged mark it had is kept, every
\* transformable node it processed is memoized with its current transform,
\* and every mesh or cube processed before the failing node is marked
\* logged.  The mesh whose geometry step raised is not marked logged, so any
\* call hands a processed mesh that is not yet marked to the geometry step
\* again, and the failed call issues no clear instruction and deletes no
\* memo entry.
C33_NoRollback ==
    [][ /\ (op' = "log_stage" /\ ret' = "raised") =>
             /\ logged_meshes \subseteq logged_meshes'
             /\ DOMAIN last_usd_transforms \subseteq DOMAIN last_usd_transforms'
             /\ \A p \in lastVisible' :
                   IsXformable(p) =>
                     /\ p \in DOMAIN last_usd_transforms'
                     /\ last_usd_transforms'[p] = xf[p]
             /\ \E p \in lastVisible' :
                   /\ IsMesh(p)
                   /\ p \notin logged_meshes'
                   /\ VisitedBefore(p, lastVisible') = lastVisible' \ {p}
                   /\ Drawable \cap VisitedBefore(p, lastVisible')
                         \subseteq logged_meshes'
             /\ \A p \in Paths : CountAt(out', "Clear", p) = 0
        /\ (op' = "log_stage" /\ ret' # "warning") =>
             \A p \in lastVisible' \ logged_meshes :
                IsMesh(p) =>
                  \/ p \in logged_meshes'
                  \/ ret' = "raised" /\ VisitedBefore(p, lastVisible') = lastVisible' \ {p}
      ]_vars

\* the call logged the first mesh, memoized the transform of the next one
\* with subsets and raised in its geometry step
C33_Witness ==
    /\ op = "log_stage" /\ ret = "raised"
    /\ Mesh \in logged_meshes
    /\ SelectEntries(out, GeometryKinds, Mesh) # <<>>
    /\ Parts \in lastVisible /\ Parts \notin logged_meshes
    /\ Parts \in DOMAIN last_usd_transforms
    /\ Cube \notin lastVisible

\* C34: at the end of a log_stage of the emitter with the PhysX and the
\* Isaac Lab pose routes, every path that has an entry in the USD, the
\* PhysX or the Isaac Lab pose memo and is absent from the call's visible
\* set got a clear instruction and has no memo entry left.
C34_EveryMemoCleared ==
    [][ (op' = "log_stage" /\ ret' = "ok") =>
          \A p \in Paths \ lastVisible' :
              /\ Memoized(p) => CountAt(out', "Clear", p) = 1
              /\ ~Memoized(p)'
      ]_vars

\* the values of the Transform3D entries logged at a path, in order
TransformsAt(es, path) ==
    LET at == SelectEntries(es, {"Transform3D"}, path)
    IN  [i \in 1..Len(at) |-> at[i].val]

\* C35: after every log_stage that returns, the keys of the last-transform
\* memo are nodes the call saw visible, and each entry holds the node's
\* current transform and the transform most recently emitted for the path:
\* the call either emitted transforms for the path, the last of them the
\* memoized value, or emitted none and left the entry as it was; and no
\* other operation emits a transform or changes the value of an entry.
C35_MemoIsLastEmitted ==
    [][ /\ (op' = "log_stage" /\ ret' = "ok") =>
             /\ DOMAIN last_usd_transforms' \subseteq lastVisible'
             /\ \A p \in DOMAIN last_usd_transforms' :
                   LET emitted == TransformsAt(out', p)
                   IN  /\ last_usd_transforms'[p] = xf'[p]
                       /\ IF emitted # <<>>
                          THEN emitted[Len(emitted)] = last_usd_transforms'[p]
                          ELSE /\ p \in DOMAIN last_usd_transforms
                               /\ last_usd_transforms[p] = last_usd_transforms'[p]
        /\ op' # "log_stage" =>
             /\ \A p \in Paths : TransformsAt(out', p) = <<>>
             /\ \A p \in DOMAIN last_usd_transforms' :
                   /\ p \in DOMAIN last_usd_transforms
                   /\ last_usd_transforms[p] = last_usd_transforms'[p]
      ]_vars

\* a call that emits the moved mesh's new transform, emits none for the
\* mesh that stayed, and clears the prim that was removed
C35_Witness ==
    /\ op = "log_stage" /\ ret = "ok"
    /\ xf[Mesh] = 1
    /\ TransformsAt(out, Mesh) = <<1>>
    /\ last_usd_transforms[Mesh] = 1
    /\ Parts \in DOMAIN last_usd_transforms
    /\ TransformsAt(out, Parts) = <<>>
    /\ CountAt(out, "Clear", Base) = 1
    /\ Base \notin DOMAIN last_usd_transforms

\* every index of the triangles is a position of the vertex buffer
IndexesInto(triangles, vertices) ==
    \A t \in 1..Len(triangles), c \in 1..3 :
        triangles[t][c] \in 0..(Len(vertices) - 1)

\* the input invariant of the flattener
WellFormed(m) ==
    /\ Len(m.indices) = Sum(m.counts)
    /\ \A i \in 1..Len(m.indices) : m.indices[i] \in 0..(m.nv - 1)

\* C36: for a mesh with len(face_vertex_indices) == sum(face_vertex_counts)
\* and every index < len(vertices), on both paths every index of the
\* triangle list and of every emitted entity, whole mesh or subset, is a
\* position of the vertex buffer emitted with it; a face of fewer than three
\* corners gives no triangle and an empty face_to_triangle_indices entry,
\* and the faces after it still start at their own corner offset.
C36_IndicesValid ==
    (meshOut.done /\ meshIn.faceData = "values" /\ WellFormed(meshIn)) =>
        /\ IndexesInto(meshOut.triangles, meshOut.vertices)
        /\ \A e \in 1..Len(meshOut.logged) :
              /\ meshOut.logged[e].vertices = meshOut.vertices
              /\ IndexesInto(meshOut.logged[e].triangles, meshOut.logged[e].vertices)
        /\ Len(meshOut.face_to_triangle_indices) = Len(meshIn.counts)
        /\ \A f \in 1..Len(meshIn.counts) :
              LET at == meshOut.face_to_triangle_indices[f]
                  idx == Sum(SubSeq(meshIn.counts, 1, f - 1))
              IN  IF meshIn.counts[f] < 3 THEN at = <<>>
                  ELSE /\ at # <<>>
                       /\ meshOut.triangles[at[1] + 1] =
                             IF meshOut.should_flatten
                             THEN <<idx, idx + 1, idx + 2>>
                             ELSE <<meshIn.indices[idx + 1], meshIn.indices[idx + 2],
                                    meshIn.indices[idx + 3]>>

\* a face of two corners before a quad, flattened: the quad's triangles use
\* the corner slots 2..5
C36_Witness ==
    /\ meshOut.done /\ WellFormed(meshIn)
    /\ meshIn.counts = <<2, 4>>
    /\ meshOut.should_flatten
    /\ Len(meshOut.vertices) = 6
    /\ meshOut.triangles = << <<2, 3, 4>>, <<2, 4, 5>> >>
    /\ meshOut.face_to_triangle_indices = << <<>>, <<0, 1>> >>

\* what one call on the recording stream or the logger tells about the
\* recording: a flush ends it, a set_time with a timestamp starts one, a
\* log_scene is a captured frame, which is in order only while a recording
\* is active
AfterCall(c, r) ==
    CASE c.fn = "flush" -> [r EXCEPT !.timeline = "None", !.frames = 0]
      [] c.fn = "set_time" /\ c.arg = "timestamp" ->
             [r EXCEPT !.timeline = c.timeline]
      [] c.fn = "log_scene" ->
             [r EXCEPT !.frames = @ + 1,
                       !.active = @ /\ r.timeline # "None"]
      [] OTHER -> r

RECURSIVE AfterCalls(_, _)
AfterCalls(cs, r) ==
    IF cs = <<>> THEN r ELSE AfterCalls(Tail(cs), AfterCall(Head(cs), r))

\* C37: in every reachable state of the wrapper the recorded-frame counter
\* is 0 whenever no recording is active; and over every operation the scene
\* is logged only while a recording is active, the counter goes up by one
\* for every captured frame and back to 0 when the recording is stopped, and
\* it is 0 after close.
C37_FrameCounter ==
    /\ [](timeline_name = "None" => recorded_frames = 0)
    /\ [][ LET r == AfterCalls(calls', [timeline |-> timeline_name,
                                        frames |-> recorded_frames,
                                        active |-> TRUE])
           IN  /\ r.active
               /\ timeline_name' = r.timeline
               /\ recorded_frames' = r.frames
               /\ op' = "close" => recorded_frames' = 0 /\ timeline_name' = "None"
         ]_vars

\* a step that captures the frame that exceeds the recording length and
\* stops the recording
C37_Witness ==
    /\ op = "step"
    /\ Captures(calls) = 1
    /\ calls[Len(calls)].fn = "flush"
    /\ timeline_name = "None"
    /\ recorded_frames = 0
    /\ finished # <<>>
    /\ finished[Len(finished)].frames >= 2

(***************************************************************************)
(* IsaacLabRerunLogger (src/usd_rerun_logger/isaac_lab_logger.py)          *)
(***************************************************************************)
\* environments of the largest scene
MaxEnvs == 2

\* the articulations of the scene: cfg.prim_path split at its ".*", and the
\* names of the rigid bodies
Robot ==
    [prim_path |-> <<"/World/envs/env_", "/Robot">>,
     body_names |-> <<"base", "arm">>]

Table ==
    [prim_path |-> <<"/World/envs/env_", "/Table">>,
     body_names |-> <<"top">>]

AllArticulations == <<Robot, Table>>

\* the scenes tried: none, the first or both of the articulations
ArticulationSets ==
    {SubSeq(AllArticulations, 1, k) : k \in 0..Len(AllArticulations)}

\* the logged_envs argument of __init__: an int or a list of ints
LoggedEnvsArgs ==
    {[isint |-> TRUE, n |-> n, list |-> <<>>] : n \in {0, 1}}
    \cup {[isint |-> FALSE, n |-> 0, list |-> l] :
            l \in {<<>>, <<MaxEnvs - 1>>, <<0, MaxEnvs>>, <<1, 0>>}}

\* [logged_envs] if isinstance(logged_envs, int) else logged_envs
LoggedEnvsOf(arg) == IF arg.isint THEN <<arg.n>> ELSE arg.list

\* env_id in self._logged_envs
Listed(env_id, envs) == \E i \in 1..Len(envs) : envs[i] = env_id

\* str.replace(".*", by) on a path given by its pieces around ".*"
RECURSIVE Replace(_, _)
Replace(parts, by) ==
    IF Len(parts) = 1 THEN parts[1]
    ELSE parts[1] \o by \o Replace(Tail(parts), by)

\* obj.cfg.prim_path.replace(".*", str(env_id))
ArticulationRoot(obj, env_id) == Replace(obj.prim_path, ToString(env_id))

\* Usd.PrimRange(prim): the root and the rigid bodies below it
PrimRange(root_path, obj) ==
    <<root_path>> \o [i \in 1..Len(obj.body_names) |->
                        BodyPath(root_path, obj.body_names[i])]

\* log_usd_transform(prim); log_visuals(prim) for every prim of the range
RECURSIVE log_structure(_, _)
log_structure(prims, root_path) ==
    IF prims = <<>> THEN <<>>
    ELSE <<Entry("Transform3D", Head(prims), root_path, 0),
           Entry("Visuals", Head(prims), root_path, 0)>>
         \o log_structure(Tail(prims), root_path)

log_structure_always(root_path, obj, structure_logged) ==
    log_structure(PrimRange(root_path, obj), root_path)

\* if not self._scene_structure_logged: traverse the prims below the root
log_structure_once(root_path, obj, structure_logged) ==
    IF ~structure_logged
    THEN log_structure(PrimRange(root_path, obj), root_path)
    ELSE <<>>

\* the loop over obj.body_names: a pose is logged when it differs from the
\* remembered one.  r is [memo, out]
RECURSIVE log_bodies(_, _, _, _)
log_bodies(root_path, names, body_pose, r) ==
    IF names = <<>> THEN r
    ELSE LET body_path == BodyPath(root_path, Head(names))
         IN  IF body_path \in DOMAIN r.memo /\ r.memo[body_path] = body_pose
             THEN log_bodies(root_path, Tail(names), body_pose, r)
             ELSE log_bodies(root_path, Tail(names), body_pose,
                    [memo |-> DictSet(r.memo, body_path, body_pose),
                     out  |-> Append(r.out, Entry("Transform3D", body_path,
                                                  body_path, body_pose))])

\* the loop over range(self._scene.num_envs) for one articulation
RECURSIVE log_envs(_, _, _, _, _, _, _)
log_envs(obj, body_pose, env_id, n, envs, structure_logged, r) ==
    IF env_id >= n THEN r
    ELSE IF ~Listed(env_id, envs)
    THEN log_envs(obj, body_pose, env_id + 1, n, envs, structure_logged, r)
    ELSE log_envs(obj, body_pose, env_id + 1, n, envs, structure_logged,
           log_bodies(ArticulationRoot(obj, env_id), obj.body_names, body_pose,
             [r EXCEPT !.out = @ \o log_structure_once(
                  ArticulationRoot(obj, env_id), obj, structure_logged)]))

\* the loop over self._scene.articulations.values()
RECURSIVE log_articulations(_, _, _, _, _, _, _)
log_articulations(objs, poses, i, n, envs, structure_logged, r) ==
    IF i > Len(objs) THEN r
    ELSE log_articulations(objs, poses, i + 1, n, envs, structure_logged,
           log_envs(objs[i], poses[i], 0, n, envs, structure_logged, r))

\* IsaacLabRerunLogger.log_scene
log_scene ==
    /\ op' = "log_scene"
    /\ ret' = "none"
    /\ IF scene = "None" \/ scene_stage = "None"
       THEN /\ out' = <<>>
            /\ UNCHANGED <<last_transforms, scene_structure_logged,
                           structure_found>>
       ELSE LET r == log_articulations(articulations, body_pose_w, 1, num_envs,
                       logged_envs, scene_structure_logged,
                       [memo |-> last_transforms, out |-> <<>>])
            IN  /\ out' = r.out
                /\ last_transforms' = r.memo
                /\ scene_structure_logged' = TRUE
                /\ structure_found' = TRUE
    /\ UNCHANGED <<scene, scene_stage, num_envs, articulations, body_pose_w,
                   logged_envs>>
    /\ UNCHANGED <<world, logger, hist, lastOp, util, flat, wrap, dl>>

\* the simulation opens or closes the stage of the scene
SetSceneStage(s) ==
    /\ scene # "None"
    /\ scene_stage # s
    /\ scene_stage' = s
    /\ op' = "stage" /\ ret' = "none" /\ out' = <<>>
    /\ UNCHANGED <<scene, num_envs, articulations, body_pose_w, logged_envs,
                   scene_structure_logged, last_transforms, structure_found>>
    /\ UNCHANGED <<world, logger, hist, lastOp, util, flat, wrap, dl>>

\* a physics step moves the bodies of an articulation
PhysicsStep(i, v) ==
    /\ i \in 1..Len(articulations)
    /\ body_pose_w[i] # v
    /\ body_pose_w' = [body_pose_w EXCEPT ![i] = v]
    /\ op' = "physics" /\ ret' = "none" /\ out' = <<>>
    /\ UNCHANGED <<scene, scene_stage, num_envs, articulations, logged_envs,
                   scene_structure_logged, last_transforms, structure_found>>
    /\ UNCHANGED <<world, logger, hist, lastOp, util, flat, wrap, dl>>

\* IsaacLabRerunLogger.__init__ on a scene, or on None
InitIsaacLab ==
    /\ stagePrims = Paths
    /\ xf = [p \in Paths |-> 0]
    /\ pose = [b \in Bodies |-> 0]
    /\ material = NoMaterials
    /\ stage = "None"
    /\ logger_id = "None"
    /\ path_filter = NoFilter
    /\ logged_meshes = {}
    /\ last_usd_transforms = EmptyDict
    /\ use_physx_transforms = FALSE
    /\ last_physx_transforms = EmptyDict
    /\ isaac_lab_scene = "None"
    /\ last_isaac_lab_transforms = EmptyDict
    /\ op = "construct" /\ ret = "none" /\ out = <<>>
    /\ seen = {} /\ geomLog = NoHistory /\ lastVisible = {}
    /\ lastOp = "construct"
    /\ UtilIdle
    /\ FlatIdle
    /\ WrapIdle
    /\ DownloadIdle
    /\ \/ /\ scene = "None"
          /\ scene_stage = "None"
          /\ num_envs = 0
          /\ articulations = <<>>
          /\ body_pose_w = <<>>
       \/ /\ scene = "scene"
          /\ scene_stage \in {"None", "stage"}
          /\ num_envs \in 1..MaxEnvs
          /\ articulations \in ArticulationSets
          /\ body_pose_w = [i \in 1..Len(articulations) |-> 0]
    /\ \E arg \in LoggedEnvsArgs : logged_envs = LoggedEnvsOf(arg)
    /\ scene_structure_logged = FALSE
    /\ last_transforms = EmptyDict
    /\ structure_found = FALSE

NextIsaacLab ==
    \/ log_scene
    \/ \E s \in {"None", "stage"} : SetSceneStage(s)
    \/ \E i \in DOMAIN AllArticulations, v \in XfValues : PhysicsStep(i, v)

SpecIsaacLab == InitIsaacLab /\ [][NextIsaacLab]_vars

\* the roots of every articulation in every listed environment of the scene
ListedRoots ==
    {ArticulationRoot(articulations[i], e) :
        i \in 1..Len(articulations),
        e \in {e \in 0..(num_envs - 1) : Listed(e, logged_envs)}}

\* the roots of every articulation in any environment, listed or not
AnyRoots ==
    {ArticulationRoot(articulations[i], e) :
        i \in 1..Len(articulations), e \in 0..MaxEnvs}

\* the entries the traversals below a root logged (a body pose is logged
\* for the body's own path)
StructureEntries(es) == {i \in 1..Len(es) : es[i].of \in AnyRoots}

\* C38: a log_scene call logs the static structure (the transform and the
\* visuals of every prim below an articulation root) exactly when it is the
\* first call that finds a scene and a stage; it then logs it for every
\* articulation in every listed environment and for no other root; a later
\* call logs none; a call that finds no scene or no stage logs nothing and
\* leaves the one-shot unconsumed.
C38_StructureOnce ==
    [][ op' = "log_scene" =>
          LET foundNow == scene # "None" /\ scene_stage # "None"
              S == StructureEntries(out')
          IN  /\ ~foundNow =>
                    /\ out' = <<>>
                    /\ scene_structure_logged' = scene_structure_logged
                    /\ structure_found' = structure_found
              /\ foundNow /\ structure_found => S = {}
              /\ foundNow /\ ~structure_found =>
                    /\ {out'[i].of : i \in S} = ListedRoots
                    /\ \A i \in 1..Len(articulations), e \in 0..(num_envs - 1) :
                          Listed(e, logged_envs) =>
                             LET root == ArticulationRoot(articulations[i], e)
                                 prims == PrimRange(root, articulations[i])
                             IN  \A k \in 1..Len(prims), kind \in {"Transform3D", "Visuals"} :
                                    \E j \in S : out'[j] = Entry(kind, prims[k], root, 0)
      ]_vars

\* the first call that found the stage, made after a physics step, with two
\* articulations and only the second environment listed
C38_Witness ==
    /\ op = "log_scene"
    /\ num_envs = 2
    /\ logged_envs = <<1>>
    /\ articulations = <<Robot, Table>>
    /\ \E i \in 1..Len(out) :
          out[i] = Entry("Visuals", "/World/envs/env_1/Table/top",
                         "/World/envs/env_1/Table", 0)
    /\ \A i \in 1..Len(out) : out[i].of # "/World/envs/env_0/Robot"
    /\ \E i \in 1..Len(out) : out[i].kind = "Transform3D" /\ out[i].val = 1

(***************************************************************************)
(* download_image (src/usd_rerun_logger/util.py)                           *)
(***************************************************************************)
UrlPng       == "https://host/tex/a.png"
UrlBare      == "https://host/tex/b"
UrlVersioned == "https://host/v1.2/c"

Urls == {UrlPng, UrlBare, UrlVersioned}

\* urlparse(url).path, as its names and the "/" and "." between them
UrlPath(url) ==
    CASE url = UrlPng       -> <<"/", "tex", "/", "a", ".", "png">>
      [] url = UrlBare      -> <<"/", "tex", "/", "b">>
      [] url = UrlVersioned -> <<"/", "v1", ".", "2", "/", "c">>

\* hashlib.md5(url.encode()).hexdigest(): one name per url
Md5(url) ==
    CASE url = UrlPng       -> "5d41"
      [] url = UrlBare      -> "7b8b"
      [] url = UrlVersioned -> "e4da"

RECURSIVE Join(_)
Join(tokens) == IF tokens = <<>> THEN "" ELSE Head(tokens) \o Join(Tail(tokens))

\* path.rsplit(".", 1) splits at the last ".": its position, 0 for a path
\* that has none
LastDot(tokens) ==
    LET dots == {i \in 1..Len(tokens) : tokens[i] = "."}
    IN  IF dots = {} THEN 0 ELSE CHOOSE i \in dots : \A j \in dots : j <= i

\* ext = f".{path_parts[1]}" if len(path_parts) > 1 else ""
ExtTokens(url) ==
    IF LastDot(UrlPath(url)) = 0 THEN <<>>
    ELSE SubSeq(UrlPath(url), LastDot(UrlPath(url)), Len(UrlPath(url)))

CacheDir == "/tmp/usd_rerun_logger"

\* os.path.join(cache_dir, f"{url_hash}{ext}")
cached_path(url) == CacheDir \o "/" \o Md5(url) \o Join(ExtTokens(url))

\* cached_path + ".tmp"
temp_path(url) == cached_path(url) \o ".tmp"

\* the directory the cached path lies in is the cache directory itself
InCacheDir(url) == \A i \in 1..Len(ExtTokens(url)) : ExtTokens(url)[i] # "/"

\* what a request for a url meets, and whether the disk takes a write
ServerStates == {"image", "not_image", "unreachable"}
DiskStates   == {"ok", "full"}

Outcome(r, dir, fs, opened) ==
    [ret |-> r, cache_dir |-> dir, files |-> fs, opened |-> opened]

download_image_in_place(url, dir, fs, srv, dsk) ==
    IF dir = "blocked" THEN {Outcome("raised", dir, fs, FALSE)}
    ELSE IF cached_path(url) \in fs
    THEN {Outcome(cached_path(url), "present", fs, FALSE)}
    ELSE IF srv[url] = "unreachable" \/ ~InCacheDir(url) \/ dsk = "full"
    THEN {Outcome("None", "present", fs, TRUE)}
    ELSE IF srv[url] = "not_image"
    THEN {Outcome("None", "present", fs \cup {cached_path(url)}, TRUE)}
    ELSE {Outcome(cached_path(url), "present", fs \cup {cached_path(url)}, TRUE)}

\* download_image(url): the outcomes of one call.  A write the disk refuses
\* may leave the temporary file behind or not.
download_image(url, dir, fs, srv, dsk) ==
    IF dir = "blocked"
    THEN \* os.makedirs raises, outside the try
         {Outcome("raised", dir, fs, FALSE)}
    ELSE IF cached_path(url) \in fs
    THEN {Outcome(cached_path(url), "present", fs, FALSE)}
    ELSE IF srv[url] = "unreachable"
    THEN \* urlopen or read raises
         {Outcome("None", "present", fs, TRUE)}
    ELSE IF ~InCacheDir(url)
    THEN \* open(temp_path, "wb") raises: no such directory
         {Outcome("None", "present", fs, TRUE)}
    ELSE IF dsk = "full"
    THEN {Outcome("None", "present", fs, TRUE),
          Outcome("None", "present", fs \cup {temp_path(url)}, TRUE)}
    ELSE IF srv[url] = "not_image"
    THEN \* verify raises: os.remove(temp_path)
         {Outcome("None", "present", fs \ {temp_path(url)}, TRUE)}
    ELSE \* os.rename(temp_path, cached_path)
         {Outcome(cached_path(url), "present",
                  (fs \ {temp_path(url)}) \cup {cached_path(url)}, TRUE)}

DownloadImage(url) ==
    \E o \in download_image(url, cache_dir, files, server, disk) :
        /\ op' = "download_image"
        /\ ret' = o.ret
        /\ out' = <<>>
        /\ cache_dir' = o.cache_dir
        /\ files' = o.files
        /\ lastDownload' = [url |-> url, opened |-> o.opened]
        /\ UNCHANGED <<server, disk>>
        /\ UNCHANGED <<world, logger, hist, lastOp, util, flat, wrap, lab>>

\* the server behind a url changes what it answers
ServerChange(url, s) ==
    /\ server[url] # s
    /\ server' = [server EXCEPT ![url] = s]
    /\ op' = "server" /\ ret' = "none" /\ out' = <<>>
    /\ UNCHANGED <<cache_dir, files, disk, lastDownload>>
    /\ UNCHANGED <<world, logger, hist, lastOp, util, flat, wrap, lab>>

\* the disk fills up or is freed
DiskChange(d) ==
    /\ disk # d
    /\ disk' = d
    /\ op' = "disk" /\ ret' = "none" /\ out' = <<>>
    /\ UNCHANGED <<cache_dir, files, server, lastDownload>>
    /\ UNCHANGED <<world, logger, hist, lastOp, util, flat, wrap, lab>>

\* the system's tmp folder is cleaned: the cache directory goes with it
CleanTmp ==
    /\ cache_dir = "present"
    /\ cache_dir' = "absent"
    /\ files' = {}
    /\ op' = "clean" /\ ret' = "none" /\ out' = <<>>
    /\ UNCHANGED <<server, disk, lastDownload>>
    /\ UNCHANGED <<world, logger, hist, lastOp, util, flat, wrap, lab>>

InitDownload ==
    /\ stagePrims = Paths
    /\ xf = [p \in Paths |-> 0]
    /\ pose = [b \in Bodies |-> 0]
    /\ material = NoMaterials
    /\ stage = "None"
    /\ logger_id = "None"
    /\ path_filter = NoFilter
    /\ logged_meshes = {}
    /\ last_usd_transforms = EmptyDict
    /\ use_physx_transforms = FALSE
    /\ last_physx_transforms = EmptyDict
    /\ isaac_lab_scene = "None"
    /\ last_isaac_lab_transforms = EmptyDict
    /\ op = "construct" /\ ret = "none" /\ out = <<>>
    /\ seen = {} /\ geomLog = NoHistory /\ lastVisible = {}
    /\ lastOp = "construct"
    /\ UtilIdle
    /\ FlatIdle
    /\ WrapIdle
    /\ LabIdle
    /\ cache_dir \in {"absent", "present", "blocked"}
    /\ files = {}
    /\ server \in [Urls -> ServerStates]
    /\ disk \in DiskStates
    /\ lastDownload = NoDownload

NextDownload ==
    \/ \E url \in Urls : DownloadImage(url)
    \/ \E url \in Urls, s \in ServerStates : ServerChange(url, s)
    \/ \E d \in DiskStates : DiskChange(d)
    \/ CleanTmp

SpecDownload == InitDownload /\ [][NextDownload]_vars

\* C39: a download_image call whose cache file exists returns the cached
\* path, opens no url and leaves the files alone; a call that opens the url
\* and meets a failed download or a file that is no image returns None, does
\* not raise, and leaves no file at the final cache path; and every call
\* that finds no file at the final cache path opens the url, so a failed
\* download is tried again by the next call.
C39_CacheOrRetry ==
    [][ op' = "download_image" =>
          LET u  == lastDownload'.url
              cp == cached_path(u)
          IN  /\ cp \in files =>
                    /\ ret' = cp
                    /\ ~lastDownload'.opened
                    /\ files' = files
              /\ cp \notin files /\ cache_dir # "blocked" => lastDownload'.opened
              /\ lastDownload'.opened => ret' # "raised"
              /\ lastDownload'.opened /\ server[u] # "image" =>
                    ret' = "None" /\ cp \notin files'
              /\ ret' = "None" => cp \notin files'
      ]_vars

\* a download that failed verification while another url's file is cached
C39_Witness ==
    /\ op = "download_image"
    /\ ret = "None"
    /\ lastDownload = [url |-> UrlPng, opened |-> TRUE]
    /\ server[UrlPng] = "not_image"
    /\ files = {cached_path(UrlBare)}

====
